---------------------------- MODULE Spec2Model ----------------------------
(***************************************************************************)
(* A model of the telemetry acquisition and decoding engine of             *)
(* nvgpu-exporter: the field-value codec (fieldValueToFloat64,             *)
(* fieldValueToUint64, decodeBER), the batched per-link request builder    *)
(* and the NVLink collector (buildDeviceWideNvLinkRequests, linkActive,    *)
(* collectNVLinkErrors), the fabric health decoder                         *)
(* (collectFabricHealth, calculateHealthSummary, flagToGauge), the GPU     *)
(* topology builder (collectGpuTopologyInfo, discoverNicLinks,             *)
(* getCpuAffinityString), the polling scheduler (startCollectors) and the  *)
(* Xid event collector (startXidEventCollector, handleXidEvent), and the   *)
(* startup sequence (Run, loadGpuInfos, initGpuInfoWithCache) and the      *)
(* rate limit of the clock event warnings (shouldLogClockEventError).      *)
(*                                                                         *)
(* Numbers wider than 31 bits are bit sequences, least significant bit     *)
(* first, so that 64-bit raw values and the 53-bit precision of a float64  *)
(* keep their width.                                                       *)
(***************************************************************************)
EXTENDS Integers, Sequences, FiniteSets, TLC

VARIABLES
    cStage,     \* codec harness: "input" | "encoded" | "decoded"
    cOrig,      \* codec harness: the number that gets encoded
    cFv,        \* codec harness: the nvml.FieldValue handed to the decoders
    cFloat,     \* codec harness: result of fieldValueToFloat64(cFv)
    cBer,       \* codec harness: result of decodeBER(cFv)
    nvStage,    \* NVLink collector: "idle" | "done"
    nvEnv,      \* NVLink collector: the answers NVML gave during the pass
    nvRun,      \* NVLink collector: what the pass did (requests, samples, log)
    fhStage,    \* fabric collector: "idle" | "done"
    fhEnv,      \* fabric collector: the answers NVML gave during the pass
    fhRun,      \* fabric collector: what the pass did (gauges, log)
    tpStage,    \* topology builder: "idle" | "done"
    tpEnv,      \* topology builder: the answers NVML gave during the build
    tpRun,      \* topology builder: what the build did (gauge rows, cache, queries)
    tpLook,     \* label lookups in any order: answers, cache, queries, labels returned
    nicStage,   \* NIC discovery: "idle" | "done"
    nicEnv,     \* NIC discovery: the answers NVML gave
    nicRun,     \* NIC discovery: the list discoverNicLinks returned
    afStage,    \* affinity formatters: "idle" | "input" | "formatted"
    afIn,       \* affinity formatters: the answer of GetCpuAffinity and the CPU count
    afOut,      \* affinity formatters: the strings of the two formatters
    scMain,     \* startCollectors, the caller: "idle" | "call" | "spawned" | "returned"
    scPc,       \* startCollectors, the goroutine: "none" | "new" | "collect" | "wait"
    scTicker,   \* the ticker: created, pending tick, intervals elapsed, ticks dropped
    scPasses,   \* the passes begun so far, each with the collectors it has run
    scFaults,   \* the fault of every device of the list
    xeSt,       \* Xid collector: position of the goroutine, xidCounts, xidErrors, log
    xeLast,     \* Xid collector: what the last EventSetWait returned
    xeHist,     \* Xid collector: waits returned so far, how many with an error, events handled
    rnEnv,      \* startup: the device lister Run was called with
    rnSt,       \* startup: position of Run, what it loaded, registered, set and started
    ckEnv,      \* clock events: the status of every clock event field, the same in every pass
    ckSt,       \* clock events: iterations, logCounter, the gauge, the warnings logged
    ckHist,     \* clock events: per key, occurrences logged and suppressed since the last logged
    gsPass,     \* gauge vectors: the passes of the process so far
    gsEnv,      \* gauge vectors: the answers NVML gave during the last pass
    gsReg       \* gauge vectors: the series of the NVLink and of the fabric gauges

vars == <<cStage, cOrig, cFv, cFloat, cBer, nvStage, nvEnv, nvRun, fhStage, fhEnv, fhRun,
          tpStage, tpEnv, tpRun, tpLook, nicStage, nicEnv, nicRun,
          afStage, afIn, afOut, scMain, scPc, scTicker, scPasses, scFaults,
          xeSt, xeLast, xeHist, rnEnv, rnSt, ckEnv, ckSt, ckHist,
          gsPass, gsEnv, gsReg>>
codecVars == <<cStage, cOrig, cFv, cFloat, cBer>>
nvVars == <<nvStage, nvEnv, nvRun>>
fhVars == <<fhStage, fhEnv, fhRun>>
tpVars == <<tpStage, tpEnv, tpRun, tpLook>>
nicVars == <<nicStage, nicEnv, nicRun>>
afVars == <<afStage, afIn, afOut>>
scVars == <<scMain, scPc, scTicker, scPasses, scFaults>>
xeVars == <<xeSt, xeLast, xeHist>>
rnVars == <<rnEnv, rnSt>>
ckVars == <<ckEnv, ckSt, ckHist>>
gsVars == <<gsPass, gsEnv, gsReg>>

(***************************************************************************)
(* Bit sequences                                                           *)
(***************************************************************************)
\* a function over 1..n written out as a tuple of its values
Tuple(f) == f \o <<>>

\* sequential composition: F applied to the value that x has produced
Then(x, F(_)) == CHOOSE r \in {F(v) : v \in {x}} : TRUE

Pow2(n) == IF n = 0 THEN 1 ELSE
           IF n = 1 THEN 2 ELSE
           IF n = 2 THEN 4 ELSE
           IF n = 3 THEN 8 ELSE
           IF n = 4 THEN 16 ELSE
           IF n = 5 THEN 32 ELSE
           IF n = 6 THEN 64 ELSE 128

\* binary.LittleEndian: byte k of the buffer holds bits 8k .. 8k+7
LittleEndianBits(bytes) ==
    Tuple([k \in 1..(8 * Len(bytes)) |->
              (bytes[((k - 1) \div 8) + 1] \div Pow2((k - 1) % 8)) % 2])

\* the inverse layout: bits 8k .. 8k+7 make byte k
LittleEndianBytes(bits) ==
    Tuple([j \in 1..(Len(bits) \div 8) |->
        bits[8 * (j - 1) + 1] + 2 * bits[8 * (j - 1) + 2] + 4 * bits[8 * (j - 1) + 3]
        + 8 * bits[8 * (j - 1) + 4] + 16 * bits[8 * (j - 1) + 5] + 32 * bits[8 * (j - 1) + 6]
        + 64 * bits[8 * (j - 1) + 7] + 128 * bits[8 * (j - 1) + 8]])

ZeroBits(n) == Tuple([i \in 1..n |-> 0])

\* a bit sequence widened with zero bits to n bits
PadBits(bits, n) == Tuple([i \in 1..n |-> IF i <= Len(bits) THEN bits[i] ELSE 0])

\* index of the highest set bit at or below position i, 0 when there is none
RECURSIVE HighBitFrom(_, _)
HighBitFrom(bits, i) ==
    IF i = 0 THEN 0 ELSE IF bits[i] = 1 THEN i ELSE HighBitFrom(bits, i - 1)

HighBit(bits) == HighBitFrom(bits, Len(bits))

\* index of the lowest clear bit at or above position i, Len + 1 when there is none
RECURSIVE LowZeroFrom(_, _)
LowZeroFrom(bits, i) ==
    IF i > Len(bits) THEN i ELSE IF bits[i] = 0 THEN i ELSE LowZeroFrom(bits, i + 1)

\* bits + 1, one bit wider
IncBits(bits) ==
    LET z == LowZeroFrom(bits, 1) IN
    Tuple([i \in 1..(Len(bits) + 1) |->
              IF i < z THEN 0 ELSE IF i = z THEN 1 ELSE IF i <= Len(bits) THEN bits[i] ELSE 0])

NotBits(bits) == Tuple([i \in 1..Len(bits) |-> 1 - bits[i]])

\* the value of a short bit sequence (fewer than 31 bits) as an integer
RECURSIVE BitsToNat(_)
BitsToNat(bits) ==
    IF Len(bits) = 0 THEN 0 ELSE bits[1] + 2 * BitsToNat(Tail(bits))

(***************************************************************************)
(* float64 values.  A float64 that came from an integer conversion is the  *)
(* integer it equals: a sign and a 65-bit magnitude.  A float64 read from  *)
(* its IEEE-754 image is that 64-bit image.  A bit error rate is the exact *)
(* decimal mant * 10^(-exp10) in lowest terms; the rounding of that        *)
(* product to a float64 is not modelled.                                   *)
(***************************************************************************)
IntFloat(neg, mag) == [kind |-> "int", neg |-> neg, mag |-> PadBits(mag, 65)]

FloatZero == IntFloat(FALSE, ZeroBits(65))

\* float64(v) for an unsigned 64-bit v: the nearest value with 53 significant
\* bits, ties to even
Uint64ToFloat64(bits) ==
    LET h == HighBit(bits) IN
    IF h <= 53 THEN IntFloat(FALSE, bits)
    ELSE LET shift   == h - 53
             kept    == SubSeq(bits, shift + 1, shift + 53)
             guard   == bits[shift]
             sticky  == \E i \in 1..(shift - 1) : bits[i] = 1
             roundUp == guard = 1 /\ (sticky \/ kept[1] = 1)
             mant    == IF roundUp THEN IncBits(kept) ELSE kept
         IN  IntFloat(FALSE, ZeroBits(shift) \o mant)

\* float64(v) for an unsigned 32-bit v: always exact
Uint32ToFloat64(bits) == IntFloat(FALSE, bits)

\* float64(v) for a signed 32-bit two's complement v: always exact
Int32ToFloat64(bits) ==
    IF bits[32] = 1
    THEN IntFloat(TRUE, SubSeq(IncBits(NotBits(bits)), 1, 32))
    ELSE IntFloat(FALSE, bits)

\* math.Float64frombits
Float64frombits(bits) == [kind |-> "double", bits |-> bits]

\* float64(mantissa) * math.Pow10(-exponent) as an exact decimal in lowest terms
BerProduct(mantissa, exponent) ==
    IF mantissa = 0 THEN [kind |-> "dec", mant |-> 0, exp10 |-> 0]
    ELSE IF mantissa % 10 = 0
         THEN [kind |-> "dec", mant |-> mantissa \div 10, exp10 |-> exponent - 1]
         ELSE [kind |-> "dec", mant |-> mantissa, exp10 |-> exponent]

BerZero == [kind |-> "dec", mant |-> 0, exp10 |-> 0]

(***************************************************************************)
(* nvml.FieldValue and the codec                                           *)
(***************************************************************************)
ValueTypes == {"DOUBLE", "UNSIGNED_INT", "UNSIGNED_LONG", "UNSIGNED_LONG_LONG",
               "SIGNED_LONG_LONG", "SIGNED_INT", "UNSIGNED_SHORT"}

FieldValue(fieldId, scopeId, ret, valueType, value) ==
    [FieldId |-> fieldId, ScopeId |-> scopeId, NvmlReturn |-> ret,
     ValueType |-> valueType, Value |-> value]

\* fieldValueToUint64: the raw unsigned value of a field, or an error
fieldValueToUint64(fv) ==
    IF fv.ValueType = "UNSIGNED_INT"
    THEN [err |-> FALSE, val |-> PadBits(LittleEndianBits(SubSeq(fv.Value, 1, 4)), 64)]
    ELSE IF fv.ValueType \in {"UNSIGNED_LONG", "UNSIGNED_LONG_LONG"}
    THEN [err |-> FALSE, val |-> LittleEndianBits(fv.Value)]
    ELSE [err |-> TRUE, val |-> ZeroBits(64)]

\* a decoder that takes the mantissa from bits 8-15 instead of bits 8-11
decodeBER_WideMantissa(fv) ==
    LET raw == fieldValueToUint64(fv) IN
    IF raw.err THEN [err |-> TRUE, val |-> BerZero]
    ELSE LET exponent == BitsToNat(SubSeq(raw.val, 1, 8))
             mantissa == BitsToNat(SubSeq(raw.val, 9, 16))
         IN  IF exponent = 0 /\ mantissa = 0
             THEN [err |-> FALSE, val |-> BerZero]
             ELSE [err |-> FALSE, val |-> BerProduct(mantissa, exponent)]

\* decodeBER: exponent = raw & 0xFF, mantissa = (raw >> 8) & 0xF
decodeBER(fv) ==
    LET raw == fieldValueToUint64(fv) IN
    IF raw.err THEN [err |-> TRUE, val |-> BerZero]
    ELSE LET exponent == BitsToNat(SubSeq(raw.val, 1, 8))
             mantissa == BitsToNat(SubSeq(raw.val, 9, 12))
         IN  IF exponent = 0 /\ mantissa = 0
             THEN [err |-> FALSE, val |-> BerZero]
             ELSE [err |-> FALSE, val |-> BerProduct(mantissa, exponent)]

\* a decoder that reads a signed 32-bit field as unsigned
fieldValueToFloat64_SignedAsUnsigned(fv) ==
    IF fv.ValueType = "DOUBLE"
    THEN [err |-> FALSE, val |-> Float64frombits(LittleEndianBits(fv.Value))]
    ELSE IF fv.ValueType \in {"UNSIGNED_INT", "SIGNED_INT"}
    THEN [err |-> FALSE, val |-> Uint32ToFloat64(LittleEndianBits(SubSeq(fv.Value, 1, 4)))]
    ELSE IF fv.ValueType \in {"UNSIGNED_LONG", "UNSIGNED_LONG_LONG"}
    THEN [err |-> FALSE, val |-> Uint64ToFloat64(LittleEndianBits(fv.Value))]
    ELSE [err |-> TRUE, val |-> FloatZero]

\* a decoder that reads every other tag as an unsigned 64-bit value
fieldValueToFloat64_DefaultAsUint64(fv) ==
    IF fv.ValueType = "DOUBLE"
    THEN [err |-> FALSE, val |-> Float64frombits(LittleEndianBits(fv.Value))]
    ELSE IF fv.ValueType = "UNSIGNED_INT"
    THEN [err |-> FALSE, val |-> Uint32ToFloat64(LittleEndianBits(SubSeq(fv.Value, 1, 4)))]
    ELSE IF fv.ValueType = "SIGNED_INT"
    THEN [err |-> FALSE, val |-> Int32ToFloat64(LittleEndianBits(SubSeq(fv.Value, 1, 4)))]
    ELSE [err |-> FALSE, val |-> Uint64ToFloat64(LittleEndianBits(fv.Value))]

\* fieldValueToFloat64: decode the 8-byte Value buffer according to ValueType
fieldValueToFloat64(fv) ==
    IF fv.ValueType = "DOUBLE"
    THEN [err |-> FALSE, val |-> Float64frombits(LittleEndianBits(fv.Value))]
    ELSE IF fv.ValueType = "UNSIGNED_INT"
    THEN [err |-> FALSE, val |-> Uint32ToFloat64(LittleEndianBits(SubSeq(fv.Value, 1, 4)))]
    ELSE IF fv.ValueType = "SIGNED_INT"
    THEN [err |-> FALSE, val |-> Int32ToFloat64(LittleEndianBits(SubSeq(fv.Value, 1, 4)))]
    ELSE IF fv.ValueType \in {"UNSIGNED_LONG", "UNSIGNED_LONG_LONG"}
    THEN [err |-> FALSE, val |-> Uint64ToFloat64(LittleEndianBits(fv.Value))]
    ELSE [err |-> TRUE, val |-> FloatZero]

(***************************************************************************)
(* The NVLink field tables and the batched request builder                 *)
(***************************************************************************)
\* links per device that a pass scans (nvml.NVLINK_MAX_LINKS, 18 in NVML)
MaxLinks == 2
\* how many entries of each field table a pass uses (8, 2 and 16 in the code)
NumErrorFields == 2
NumBerFields == 1
NumFecFields == 1

AllErrorFields == <<
    [fieldId |-> 206, name |-> "malformed_packet_errors"],
    [fieldId |-> 207, name |-> "buffer_overrun_errors"],
    [fieldId |-> 211, name |-> "local_link_integrity_errors"],
    [fieldId |-> 213, name |-> "recovery_successful_events"],
    [fieldId |-> 214, name |-> "recovery_failed_events"],
    [fieldId |-> 215, name |-> "recovery_events"],
    [fieldId |-> 219, name |-> "effective_errors"],
    [fieldId |-> 221, name |-> "symbol_errors"] >>

AllBerFields == <<
    [fieldId |-> 220, name |-> "effective_ber"],
    [fieldId |-> 222, name |-> "symbol_ber"] >>

AllFecFields == <<
    [fieldId |-> 235, name |-> "fec_errors_0"],
    [fieldId |-> 236, name |-> "fec_errors_1"],
    [fieldId |-> 237, name |-> "fec_errors_2"],
    [fieldId |-> 238, name |-> "fec_errors_3"],
    [fieldId |-> 239, name |-> "fec_errors_4"],
    [fieldId |-> 240, name |-> "fec_errors_5"],
    [fieldId |-> 241, name |-> "fec_errors_6"],
    [fieldId |-> 242, name |-> "fec_errors_7"],
    [fieldId |-> 243, name |-> "fec_errors_8"],
    [fieldId |-> 244, name |-> "fec_errors_9"],
    [fieldId |-> 245, name |-> "fec_errors_10"],
    [fieldId |-> 246, name |-> "fec_errors_11"],
    [fieldId |-> 247, name |-> "fec_errors_12"],
    [fieldId |-> 248, name |-> "fec_errors_13"],
    [fieldId |-> 249, name |-> "fec_errors_14"],
    [fieldId |-> 250, name |-> "fec_errors_15"] >>

Prefix(seq, n) == SubSeq(seq, 1, IF n <= Len(seq) THEN n ELSE Len(seq))

nvlinkErrorFields == Prefix(AllErrorFields, NumErrorFields)
nvlinkBerFields == Prefix(AllBerFields, NumBerFields)
nvlinkFecFields == Prefix(AllFecFields, NumFecFields)

Links == 0..(MaxLinks - 1)

\* a request as the builder leaves it: the other members are Go zero values
NewRequest(fieldID, link) ==
    FieldValue(fieldID, link, "SUCCESS", "DOUBLE", <<0, 0, 0, 0, 0, 0, 0, 0>>)

\* an add closure whose key forgets the link
add_KeyWithoutLink(acc, fieldID, link) ==
    [values |-> Append(acc.values, NewRequest(fieldID, link)),
     index  |-> (<<fieldID, 0>> :> Len(acc.values)) @@ acc.index]

\* the add closure: index[key] = len(values); values = append(values, request)
add(acc, fieldID, link) ==
    [values |-> Append(acc.values, NewRequest(fieldID, link)),
     index  |-> (<<fieldID, link>> :> Len(acc.values)) @@ acc.index]

\* for _, field := range fields { add(field.fieldId) }
RECURSIVE addFields(_, _, _)
addFields(acc, fields, link) ==
    IF Len(fields) = 0 THEN acc
    ELSE Then(add(acc, Head(fields).fieldId, link),
              LAMBDA a : addFields(a, Tail(fields), link))

\* a loop body that looks at the reported state only, not at the status
buildLink_IgnoreRet(acc, link, answer) ==
    IF answer.state # "FEATURE_ENABLED"
    THEN acc
    ELSE addFields(addFields(addFields(acc, nvlinkErrorFields, link),
                             nvlinkBerFields, link),
                   nvlinkFecFields, link)

\* the body of the builder's loop for one link, given GetNvLinkState's answer
buildLink(acc, link, answer) ==
    IF answer.ret # "SUCCESS" \/ answer.state # "FEATURE_ENABLED"
    THEN acc
    ELSE addFields(addFields(addFields(acc, nvlinkErrorFields, link),
                             nvlinkBerFields, link),
                   nvlinkFecFields, link)

RECURSIVE buildFrom(_, _, _)
buildFrom(acc, link, answers) ==
    IF link >= MaxLinks THEN acc
    ELSE Then(buildLink(acc, link, answers[link]),
              LAMBDA a : buildFrom(a, link + 1, answers))

\* buildDeviceWideNvLinkRequests: answers[link] is what GetNvLinkState(link)
\* returns while the batch is built
buildDeviceWideNvLinkRequests(answers) ==
    buildFrom([values |-> <<>>, index |-> <<>>], 0, answers)

\* a Go map read: the zero value when the key is absent
indexLookup(index, fieldId, link) ==
    IF <<fieldId, link>> \in DOMAIN index THEN index[<<fieldId, link>>] ELSE 0

\* linkActive, given GetNvLinkState's answer: whether the link is active and
\* what is logged
linkActive(answer, link) ==
    IF answer.ret # "SUCCESS"
    THEN [active |-> FALSE,
          log |-> IF answer.ret \notin {"ERROR_NOT_SUPPORTED", "ERROR_INVALID_ARGUMENT"}
                  THEN {[level |-> "warn", msg |-> "failed to get NVLink state",
                         field |-> "", link |-> link]}
                  ELSE {}]
    ELSE IF answer.state # "FEATURE_ENABLED"
    THEN [active |-> FALSE,
          log |-> {[level |-> "debug", msg |-> "NVLink state not enabled",
                    field |-> "", link |-> link]}]
    ELSE [active |-> TRUE, log |-> {}]

(***************************************************************************)
(* The NVLink collector.  env holds what NVML answers during the pass:     *)
(* uuidRet and pciRet, linkBuild[link] and linkRead[link] (GetNvLinkState  *)
(* while the batch is built and while the results are read), batchRet (the *)
(* return of GetFieldValues) and the per-request results.                  *)
(***************************************************************************)
\* the counter NVML holds for a field of a link: a distinct raw value each
HwValue(fieldId, link) == <<fieldId, link + 1, 0, 0, 0, 0, 0, 0>>

\* what NVML writes into one request of a successful batch
HwFill(env, req) ==
    IF env.odd.fieldId = req.FieldId /\ env.odd.link = req.ScopeId
    THEN FieldValue(req.FieldId, req.ScopeId, env.odd.ret, env.odd.type,
                    HwValue(req.FieldId, req.ScopeId))
    ELSE FieldValue(req.FieldId, req.ScopeId, "SUCCESS", "UNSIGNED_LONG_LONG",
                    HwValue(req.FieldId, req.ScopeId))

\* device.GetFieldValues: fills the requests in place, in request order, when
\* the call succeeds
GetFieldValues(env, values) ==
    IF env.batchRet = "SUCCESS"
    THEN [i \in 1..Len(values) |-> HwFill(env, values[i])]
    ELSE values

EmptyRun ==
    [requests |-> <<>>, index |-> <<>>, queried |-> FALSE, values |-> <<>>,
     samples |-> <<>>, log |-> {}]

\* GaugeVec.WithLabelValues(uuid, pciBusId, link, name).Set(value); src records
\* the request the value was decoded from
SetSample(samples, link, name, value, fv) ==
    (<<link, name>> :> [value |-> value, src |-> <<fv.FieldId, fv.ScopeId>>]) @@ samples

\* a field loop body that warns about every status other than success
collectField_WarnOnNotSupported(run, link, field, group) ==
    LET fv == run.values[indexLookup(run.index, field.fieldId, link) + 1] IN
    IF fv.NvmlReturn # "SUCCESS"
    THEN [run EXCEPT !.log = @ \cup {[level |-> "warn",
                                      msg |-> group \o " field not available",
                                      field |-> field.name, link |-> link]}]
    ELSE LET dec == IF group = "BER" THEN decodeBER(fv) ELSE fieldValueToFloat64(fv) IN
         IF dec.err THEN run
         ELSE [run EXCEPT !.samples = SetSample(@, link, field.name, dec.val, fv)]

\* the body of one field loop of collectNVLinkErrors; group is "NVLink",
\* "BER" or "FEC"
collectField(run, link, field, group) ==
    LET fv == run.values[indexLookup(run.index, field.fieldId, link) + 1] IN
    IF fv.NvmlReturn # "SUCCESS"
    THEN IF fv.NvmlReturn # "ERROR_NOT_SUPPORTED"
         THEN [run EXCEPT !.log = @ \cup {[level |-> "warn",
                                           msg |-> group \o " field not available",
                                           field |-> field.name, link |-> link]}]
         ELSE run
    ELSE LET dec == IF group = "BER" THEN decodeBER(fv) ELSE fieldValueToFloat64(fv) IN
         IF dec.err THEN run
         ELSE [run EXCEPT !.samples = SetSample(@, link, field.name, dec.val, fv)]

RECURSIVE collectFields(_, _, _, _)
collectFields(run, link, fields, group) ==
    IF Len(fields) = 0 THEN run
    ELSE Then(collectField(run, link, Head(fields), group),
              LAMBDA r : collectFields(r, link, Tail(fields), group))

\* the body of the link loop, given GetNvLinkState's answer at read time
collectLink(run, link, answer) ==
    LET la  == linkActive(answer, link)
        r0  == [run EXCEPT !.log = @ \cup la.log]
    IN  IF ~la.active THEN r0
        ELSE collectFields(collectFields(collectFields(r0, link, nvlinkErrorFields, "NVLink"),
                                         link, nvlinkBerFields, "BER"),
                           link, nvlinkFecFields, "FEC")

RECURSIVE collectLinks(_, _, _)
collectLinks(run, link, answers) ==
    IF link >= MaxLinks THEN run
    ELSE Then(collectLink(run, link, answers[link]),
              LAMBDA r : collectLinks(r, link + 1, answers))

DeviceWarn(msg) == {[level |-> "warn", msg |-> msg, field |-> "", link |-> -1]}

\* collectNVLinkErrors for a device list that holds one device, writing into
\* the gauge vector as earlier passes left it: every write is a Set
collectNVLinkErrorsInto(samples, env) ==
    LET start == [EmptyRun EXCEPT !.samples = samples] IN
    IF env.uuidRet # "SUCCESS"
    THEN [start EXCEPT !.log = DeviceWarn("failed to get UUID for device")]
    ELSE IF env.pciRet # "SUCCESS"
    THEN [start EXCEPT !.log = DeviceWarn("failed to get PCI info")]
    ELSE LET built == buildDeviceWideNvLinkRequests(env.linkBuild)
             r0    == [start EXCEPT !.requests = built.values, !.index = built.index,
                                    !.values = built.values]
         IN  IF Len(built.values) = 0 THEN r0
             ELSE LET r1 == [r0 EXCEPT !.queried = TRUE,
                                       !.values = GetFieldValues(env, built.values)]
                  IN  IF env.batchRet # "SUCCESS"
                      THEN IF env.batchRet # "ERROR_NOT_SUPPORTED"
                           THEN [r1 EXCEPT !.log = DeviceWarn("failed to read NVLink field values")]
                           ELSE r1
                      ELSE collectLinks(r1, 0, env.linkRead)

\* the first pass of a process: the gauge vector holds no series yet
collectNVLinkErrors(env) == collectNVLinkErrorsInto(<<>>, env)

(***************************************************************************)
(* The answers a pass is run against                                       *)
(***************************************************************************)
Enabled == [ret |-> "SUCCESS", state |-> "FEATURE_ENABLED"]
Disabled == [ret |-> "SUCCESS", state |-> "FEATURE_DISABLED"]

\* a failed state query leaves the state unspecified
BuildAnswers == {Enabled, Disabled, [ret |-> "ERROR_UNKNOWN", state |-> "FEATURE_ENABLED"]}
ReadAnswers == BuildAnswers \cup {[ret |-> "ERROR_NOT_SUPPORTED", state |-> "FEATURE_DISABLED"]}

NoOdd == [fieldId |-> 0, link |-> 0, ret |-> "SUCCESS", type |-> "UNSIGNED_LONG_LONG"]

AllFields == nvlinkErrorFields \o nvlinkBerFields \o nvlinkFecFields
FieldIds == {AllFields[i].fieldId : i \in 1..Len(AllFields)}

\* one request of the batch answers differently from the others: with a
\* per-request status other than success, or with another value type
OddAnswers ==
    {[ret |-> r, type |-> "UNSIGNED_LONG_LONG"] : r \in {"ERROR_NOT_SUPPORTED", "ERROR_UNKNOWN"}}
    \cup {[ret |-> "SUCCESS", type |-> t] : t \in ValueTypes \ {"UNSIGNED_LONG_LONG"}}

ActiveAtBuild(env) == {l \in Links : env.linkBuild[l] = Enabled}

DefaultEnv ==
    [uuidRet |-> "SUCCESS", pciRet |-> "SUCCESS",
     linkBuild |-> [l \in Links |-> Disabled], linkRead |-> [l \in Links |-> Disabled],
     batchRet |-> "SUCCESS", odd |-> NoOdd]

NvEnvs ==
    {[DefaultEnv EXCEPT !.uuidRet = "ERROR_UNKNOWN"], [DefaultEnv EXCEPT !.pciRet = "ERROR_UNKNOWN"]}
    \cup {[DefaultEnv EXCEPT !.linkBuild = b, !.batchRet = r] :
            b \in [Links -> BuildAnswers], r \in {"ERROR_NOT_SUPPORTED", "ERROR_UNKNOWN"}}
    \cup {[DefaultEnv EXCEPT !.linkBuild = b, !.linkRead = rd] :
            b \in [Links -> BuildAnswers], rd \in [Links -> ReadAnswers]}
    \cup {[DefaultEnv EXCEPT !.linkBuild = b, !.linkRead = rd,
                             !.odd = [fieldId |-> f, link |-> l, ret |-> o.ret, type |-> o.type]] :
            b \in [Links -> {Enabled, Disabled}], rd \in [Links -> {Enabled, Disabled}],
            f \in FieldIds, l \in Links, o \in OddAnswers}

NvIdle == nvStage = "idle" /\ nvEnv = DefaultEnv /\ nvRun = EmptyRun

\* one pass of collectNVLinkErrors
NvCollect ==
    /\ nvStage = "idle"
    /\ \E env \in NvEnvs :
          /\ nvEnv' = env
          /\ nvRun' = collectNVLinkErrors(env)
    /\ nvStage' = "done"

(***************************************************************************)
(* The codec harness: a number is encoded little-endian into the 8-byte    *)
(* Value buffer of a FieldValue with its value-type tag, then decoded.     *)
(***************************************************************************)
\* bit positions (1 = least significant) that the sample numbers are built from
SampleBitPositions == {1, 2, 9, 10, 11, 12, 13, 32, 53, 54, 64}

BitsOf(S, n) == Tuple([i \in 1..n |-> IF i \in S THEN 1 ELSE 0])

\* what the four bytes above a 32-bit value hold
PadBytes == {0, 255}

Uint64Samples == {BitsOf(S, 64) : S \in SUBSET SampleBitPositions}

Uint32Samples == {BitsOf(S, 64) : S \in SUBSET {p \in SampleBitPositions : p <= 32}}

\* magnitudes of the signed 32-bit samples: below 2^31, and 2^31 itself for -2^31
Int32Samples ==
    {[neg |-> FALSE, bits |-> BitsOf(S, 64)] : S \in SUBSET {p \in SampleBitPositions : p <= 31}}
    \cup {[neg |-> TRUE, bits |-> BitsOf(S, 64)] :
            S \in (SUBSET {p \in SampleBitPositions : p <= 31}) \ {{}}}
    \cup {[neg |-> TRUE, bits |-> BitsOf({32}, 64)]}

Originals ==
    {[tag |-> t, neg |-> FALSE, bits |-> b, pad |-> 0] :
        t \in {"DOUBLE", "UNSIGNED_LONG", "UNSIGNED_LONG_LONG"}, b \in Uint64Samples}
    \cup {[tag |-> t, neg |-> FALSE, bits |-> b, pad |-> p] :
        t \in {"UNSIGNED_INT", "UNSIGNED_SHORT", "SIGNED_LONG_LONG"},
        b \in Uint32Samples, p \in PadBytes}
    \cup {[tag |-> "SIGNED_INT", neg |-> n.neg, bits |-> n.bits, pad |-> p] :
        n \in Int32Samples, p \in PadBytes}

\* the 8-byte little-endian image of a number under its tag
EncodeValue(orig) ==
    IF orig.tag \in {"UNSIGNED_INT", "UNSIGNED_SHORT", "SIGNED_LONG_LONG"}
    THEN LittleEndianBytes(SubSeq(orig.bits, 1, 32)) \o <<orig.pad, orig.pad, orig.pad, orig.pad>>
    ELSE IF orig.tag = "SIGNED_INT"
    THEN LittleEndianBytes(IF orig.neg
                           THEN SubSeq(IncBits(NotBits(SubSeq(orig.bits, 1, 32))), 1, 32)
                           ELSE SubSeq(orig.bits, 1, 32))
         \o <<orig.pad, orig.pad, orig.pad, orig.pad>>
    ELSE LittleEndianBytes(orig.bits)

\* nothing encoded or decoded yet
NoFieldValue == <<>>
NoFloat == <<>>
NoBer == <<>>

CodecIdle ==
    /\ cStage = "idle"
    /\ cOrig = <<>>
    /\ cFv = NoFieldValue
    /\ cFloat = NoFloat
    /\ cBer = NoBer

CodecInit ==
    /\ cStage = "input"
    /\ cOrig \in Originals
    /\ cFv = NoFieldValue
    /\ cFloat = NoFloat
    /\ cBer = NoBer

\* NVML fills in the FieldValue: the tag and the little-endian value
CodecEncode ==
    /\ cStage = "input"
    /\ cStage' = "encoded"
    /\ cFv' = FieldValue(0, 0, "SUCCESS", cOrig.tag, EncodeValue(cOrig))
    /\ UNCHANGED <<cOrig, cFloat, cBer>>

\* the collectors decode the FieldValue
CodecDecode ==
    /\ cStage = "encoded"
    /\ cStage' = "decoded"
    /\ cFloat' = fieldValueToFloat64(cFv)
    /\ cBer' = decodeBER(cFv)
    /\ UNCHANGED <<cOrig, cFv>>

CodecNext == CodecEncode \/ CodecDecode

(***************************************************************************)
(* The fabric health decoder.  HealthMask is a uint32, a sequence of 32     *)
(* bits here.  The sentinels are NVML's (nvml.h): for every 2-bit flag     *)
(* 0 = not supported, 1 = true, 2 = false.                                 *)
(***************************************************************************)
GPU_FABRIC_HEALTH_MASK_DEGRADED_BW_NOT_SUPPORTED == 0
GPU_FABRIC_HEALTH_MASK_DEGRADED_BW_TRUE == 1
GPU_FABRIC_HEALTH_MASK_DEGRADED_BW_FALSE == 2
GPU_FABRIC_HEALTH_MASK_ROUTE_RECOVERY_NOT_SUPPORTED == 0
GPU_FABRIC_HEALTH_MASK_ROUTE_RECOVERY_TRUE == 1
GPU_FABRIC_HEALTH_MASK_ROUTE_RECOVERY_FALSE == 2
GPU_FABRIC_HEALTH_MASK_ROUTE_UNHEALTHY_NOT_SUPPORTED == 0
GPU_FABRIC_HEALTH_MASK_ROUTE_UNHEALTHY_TRUE == 1
GPU_FABRIC_HEALTH_MASK_ROUTE_UNHEALTHY_FALSE == 2
GPU_FABRIC_HEALTH_MASK_ACCESS_TIMEOUT_RECOVERY_NOT_SUPPORTED == 0
GPU_FABRIC_HEALTH_MASK_ACCESS_TIMEOUT_RECOVERY_TRUE == 1
GPU_FABRIC_HEALTH_MASK_ACCESS_TIMEOUT_RECOVERY_FALSE == 2
GPU_FABRIC_HEALTH_MASK_INCORRECT_CONFIGURATION_NOT_SUPPORTED == 0
GPU_FABRIC_HEALTH_MASK_INCORRECT_CONFIGURATION_NONE == 1
GPU_FABRIC_HEALTH_SUMMARY_NOT_SUPPORTED == 0
GPU_FABRIC_HEALTH_SUMMARY_HEALTHY == 1
GPU_FABRIC_HEALTH_SUMMARY_UNHEALTHY == 2
GPU_FABRIC_HEALTH_SUMMARY_LIMITED_CAPACITY == 3

\* (mask >> shift) & (2^width - 1)
MaskField(mask, shift, width) == BitsToNat(SubSeq(mask, shift + 1, shift + width))

\* flagToGauge: 1.0 for true, 0.0 for false
flagToGauge(b) == IF b THEN 1 ELSE 0

\* the value a 2-bit flag is exported with: flagToGauge(flag != 1)
healthGauge(flag) == flagToGauge(flag # 1)

\* a summary that reports limited capacity before it looks for unhealthy flags
calculateHealthSummary_DegradedFirst(degradedBw, routeRecovery, routeUnhealthy, accessTimeoutRecovery, incorrectConfig) ==
    IF /\ degradedBw = GPU_FABRIC_HEALTH_MASK_DEGRADED_BW_NOT_SUPPORTED
       /\ routeRecovery = GPU_FABRIC_HEALTH_MASK_ROUTE_RECOVERY_NOT_SUPPORTED
       /\ routeUnhealthy = GPU_FABRIC_HEALTH_MASK_ROUTE_UNHEALTHY_NOT_SUPPORTED
       /\ accessTimeoutRecovery = GPU_FABRIC_HEALTH_MASK_ACCESS_TIMEOUT_RECOVERY_NOT_SUPPORTED
       /\ incorrectConfig = GPU_FABRIC_HEALTH_MASK_INCORRECT_CONFIGURATION_NOT_SUPPORTED
    THEN GPU_FABRIC_HEALTH_SUMMARY_NOT_SUPPORTED
    ELSE IF degradedBw = GPU_FABRIC_HEALTH_MASK_DEGRADED_BW_TRUE
    THEN GPU_FABRIC_HEALTH_SUMMARY_LIMITED_CAPACITY
    ELSE IF \/ routeRecovery = GPU_FABRIC_HEALTH_MASK_ROUTE_RECOVERY_TRUE
            \/ routeUnhealthy = GPU_FABRIC_HEALTH_MASK_ROUTE_UNHEALTHY_TRUE
            \/ accessTimeoutRecovery = GPU_FABRIC_HEALTH_MASK_ACCESS_TIMEOUT_RECOVERY_TRUE
            \/ /\ incorrectConfig # GPU_FABRIC_HEALTH_MASK_INCORRECT_CONFIGURATION_NOT_SUPPORTED
               /\ incorrectConfig # GPU_FABRIC_HEALTH_MASK_INCORRECT_CONFIGURATION_NONE
    THEN GPU_FABRIC_HEALTH_SUMMARY_UNHEALTHY
    ELSE GPU_FABRIC_HEALTH_SUMMARY_HEALTHY

\* a summary whose first test leaves the configuration code out
calculateHealthSummary_FlagsOnlySentinel(degradedBw, routeRecovery, routeUnhealthy, accessTimeoutRecovery, incorrectConfig) ==
    IF /\ degradedBw = GPU_FABRIC_HEALTH_MASK_DEGRADED_BW_NOT_SUPPORTED
       /\ routeRecovery = GPU_FABRIC_HEALTH_MASK_ROUTE_RECOVERY_NOT_SUPPORTED
       /\ routeUnhealthy = GPU_FABRIC_HEALTH_MASK_ROUTE_UNHEALTHY_NOT_SUPPORTED
       /\ accessTimeoutRecovery = GPU_FABRIC_HEALTH_MASK_ACCESS_TIMEOUT_RECOVERY_NOT_SUPPORTED
    THEN GPU_FABRIC_HEALTH_SUMMARY_NOT_SUPPORTED
    ELSE IF \/ routeRecovery = GPU_FABRIC_HEALTH_MASK_ROUTE_RECOVERY_TRUE
            \/ routeUnhealthy = GPU_FABRIC_HEALTH_MASK_ROUTE_UNHEALTHY_TRUE
            \/ accessTimeoutRecovery = GPU_FABRIC_HEALTH_MASK_ACCESS_TIMEOUT_RECOVERY_TRUE
            \/ /\ incorrectConfig # GPU_FABRIC_HEALTH_MASK_INCORRECT_CONFIGURATION_NOT_SUPPORTED
               /\ incorrectConfig # GPU_FABRIC_HEALTH_MASK_INCORRECT_CONFIGURATION_NONE
    THEN GPU_FABRIC_HEALTH_SUMMARY_UNHEALTHY
    ELSE IF degradedBw = GPU_FABRIC_HEALTH_MASK_DEGRADED_BW_TRUE
    THEN GPU_FABRIC_HEALTH_SUMMARY_LIMITED_CAPACITY
    ELSE GPU_FABRIC_HEALTH_SUMMARY_HEALTHY

\* calculateHealthSummary: 0=not_supported, 1=healthy, 2=unhealthy, 3=limited_capacity
calculateHealthSummary(degradedBw, routeRecovery, routeUnhealthy, accessTimeoutRecovery, incorrectConfig) ==
    IF /\ degradedBw = GPU_FABRIC_HEALTH_MASK_DEGRADED_BW_NOT_SUPPORTED
       /\ routeRecovery = GPU_FABRIC_HEALTH_MASK_ROUTE_RECOVERY_NOT_SUPPORTED
       /\ routeUnhealthy = GPU_FABRIC_HEALTH_MASK_ROUTE_UNHEALTHY_NOT_SUPPORTED
       /\ accessTimeoutRecovery = GPU_FABRIC_HEALTH_MASK_ACCESS_TIMEOUT_RECOVERY_NOT_SUPPORTED
       /\ incorrectConfig = GPU_FABRIC_HEALTH_MASK_INCORRECT_CONFIGURATION_NOT_SUPPORTED
    THEN GPU_FABRIC_HEALTH_SUMMARY_NOT_SUPPORTED
    ELSE IF \/ routeRecovery = GPU_FABRIC_HEALTH_MASK_ROUTE_RECOVERY_TRUE
            \/ routeUnhealthy = GPU_FABRIC_HEALTH_MASK_ROUTE_UNHEALTHY_TRUE
            \/ accessTimeoutRecovery = GPU_FABRIC_HEALTH_MASK_ACCESS_TIMEOUT_RECOVERY_TRUE
            \/ /\ incorrectConfig # GPU_FABRIC_HEALTH_MASK_INCORRECT_CONFIGURATION_NOT_SUPPORTED
               /\ incorrectConfig # GPU_FABRIC_HEALTH_MASK_INCORRECT_CONFIGURATION_NONE
    THEN GPU_FABRIC_HEALTH_SUMMARY_UNHEALTHY
    ELSE IF degradedBw = GPU_FABRIC_HEALTH_MASK_DEGRADED_BW_TRUE
    THEN GPU_FABRIC_HEALTH_SUMMARY_LIMITED_CAPACITY
    ELSE GPU_FABRIC_HEALTH_SUMMARY_HEALTHY

EmptyFabricRun ==
    [written |-> FALSE, state |-> -1, status |-> -1, fields |-> <<>>, health |-> <<>>,
     incorrectConfig |-> -1, summary |-> -1, log |-> {}]

\* collectFabricHealth for a device list that holds one device
collectFabricHealth(env) ==
    IF env.uuidRet # "SUCCESS"
    THEN [EmptyFabricRun EXCEPT !.log = {"Failed to get UUID for device"}]
    ELSE IF env.pciRet # "SUCCESS"
    THEN [EmptyFabricRun EXCEPT !.log = {"Failed to get PCI info for device"}]
    ELSE IF env.fabricRet # "SUCCESS"
    THEN [EmptyFabricRun EXCEPT !.log = {"Failed to get fabric info V2 for device"}]
    ELSE LET degradedBw            == MaskField(env.HealthMask, 0, 2)
             routeRecovery         == MaskField(env.HealthMask, 2, 2)
             routeUnhealthy        == MaskField(env.HealthMask, 4, 2)
             accessTimeoutRecovery == MaskField(env.HealthMask, 6, 2)
             incorrectConfig       == MaskField(env.HealthMask, 8, 14)
         IN  [written |-> TRUE,
              state   |-> env.State,
              status  |-> env.Status,
              fields  |-> [degradedBw |-> degradedBw, routeRecovery |-> routeRecovery,
                           routeUnhealthy |-> routeUnhealthy,
                           accessTimeoutRecovery |-> accessTimeoutRecovery,
                           incorrectConfig |-> incorrectConfig],
              health  |-> [degraded_bandwidth      |-> healthGauge(degradedBw),
                           route_recovery          |-> healthGauge(routeRecovery),
                           route_unhealthy         |-> healthGauge(routeUnhealthy),
                           access_timeout_recovery |-> healthGauge(accessTimeoutRecovery)],
              incorrectConfig |-> incorrectConfig,
              summary |-> calculateHealthSummary(degradedBw, routeRecovery, routeUnhealthy,
                                                 accessTimeoutRecovery, incorrectConfig),
              log     |-> {}]

\* the 2-bit flags, the 14-bit configuration codes (0, 1, 2, 5, 256, 0x3FFF)
\* and the bits 22-31 that the masks of the passes are put together from
FlagBits == {<<0, 0>>, <<1, 0>>, <<0, 1>>, <<1, 1>>}
ConfigBits == {ZeroBits(14), <<1>> \o ZeroBits(13), <<0, 1>> \o ZeroBits(12),
               <<1, 0, 1>> \o ZeroBits(11), ZeroBits(8) \o <<1>> \o ZeroBits(5),
               Tuple([i \in 1..14 |-> 1])}
HighBits == {ZeroBits(10), <<1>> \o ZeroBits(9), ZeroBits(9) \o <<1>>, Tuple([i \in 1..10 |-> 1])}
HealthMasks == {bw \o rr \o ru \o atr \o cfg \o hi :
                  bw \in FlagBits, rr \in FlagBits, ru \in FlagBits, atr \in FlagBits,
                  cfg \in ConfigBits, hi \in HighBits}

DefaultFabricEnv ==
    [uuidRet |-> "SUCCESS", pciRet |-> "SUCCESS", fabricRet |-> "SUCCESS",
     State |-> 0, Status |-> 0, HealthMask |-> ZeroBits(32)]

FhEnvs ==
    {[DefaultFabricEnv EXCEPT !.uuidRet = "ERROR_UNKNOWN"],
     [DefaultFabricEnv EXCEPT !.pciRet = "ERROR_UNKNOWN"],
     [DefaultFabricEnv EXCEPT !.fabricRet = "ERROR_NOT_SUPPORTED"]}
    \cup {[DefaultFabricEnv EXCEPT !.State = st, !.HealthMask = m] :
            st \in {0, 3}, m \in HealthMasks}

FhIdle == fhStage = "idle" /\ fhEnv = DefaultFabricEnv /\ fhRun = EmptyFabricRun

\* one pass of collectFabricHealth
FhCollect ==
    /\ fhStage = "idle"
    /\ \E env \in FhEnvs :
          /\ fhEnv' = env
          /\ fhRun' = collectFabricHealth(env)
    /\ fhStage' = "done"

(***************************************************************************)
(* CPU affinity range strings.  An affinity mask is a sequence of words,   *)
(* each word a sequence of UintSize bits, least significant bit first.     *)
(***************************************************************************)
UintSize == 64
MaxMaskWords == 2

formatRange(start, end) ==
    IF start = end THEN ToString(start)
    ELSE ToString(start) \o "-" \o ToString(end)

RECURSIVE Join(_, _)
Join(elems, sep) ==
    IF Len(elems) = 0 THEN ""
    ELSE IF Len(elems) = 1 THEN Head(elems)
    ELSE Head(elems) \o sep \o Join(Tail(elems), sep)

\* the two nested loops over the words and the bits of a word, ascending
maskCpus(mask) ==
    SelectSeq([k \in 1..(Len(mask) * UintSize) |-> k - 1],
              LAMBDA cpu : mask[(cpu \div UintSize) + 1][(cpu % UintSize) + 1] = 1)

RECURSIVE cpuRanges(_, _, _, _)
cpuRanges(rest, start, prev, ranges) ==
    IF Len(rest) = 0 THEN Append(ranges, formatRange(start, prev))
    ELSE IF Head(rest) = prev + 1 THEN cpuRanges(Tail(rest), start, Head(rest), ranges)
    ELSE cpuRanges(Tail(rest), Head(rest), Head(rest), Append(ranges, formatRange(start, prev)))

getCpuAffinityString_NoRunMerge(aff, numCPUs) ==
    IF aff.ret # "SUCCESS" \/ Len(aff.mask) = 0 THEN "unknown"
    ELSE LET cpus == SelectSeq(maskCpus(aff.mask), LAMBDA cpu : cpu < numCPUs)
         IN IF Len(cpus) = 0 THEN "unknown"
            ELSE Join([k \in 1..Len(cpus) |-> formatRange(cpus[k], cpus[k])], ",")

\* aff is what device.GetCpuAffinity(numCPUs) answers: its return and mask
getCpuAffinityString(aff, numCPUs) ==
    IF aff.ret # "SUCCESS" \/ Len(aff.mask) = 0 THEN "unknown"
    ELSE LET cpus == SelectSeq(maskCpus(aff.mask), LAMBDA cpu : cpu < numCPUs)
         IN IF Len(cpus) = 0 THEN "unknown"
            ELSE Join(cpuRanges(Tail(cpus), Head(cpus), Head(cpus), <<>>), ",")

\* the earlier formatter: it takes the mask alone and answers "N/A"
formatCpuAffinity(cpus) ==
    IF Len(cpus) = 0 THEN "N/A"
    ELSE LET cpuList == maskCpus(cpus)
         IN IF Len(cpuList) = 0 THEN "N/A"
            ELSE Join(cpuRanges(Tail(cpuList), Head(cpuList), Head(cpuList), <<>>), ",")

(***************************************************************************)
(* The GPU topology builder.  env holds what NVML answers during one       *)
(* build: n devices, infoErr (the device whose GpuInfo fails, -1 for       *)
(* none), anc[a] (the answer of devices[a].GetTopologyCommonAncestor),     *)
(* remote[a][link] (the device at the far end of a link of a, -1 for       *)
(* none), aff and numCPUs (GetCpuAffinity) and numa (GetNumaNodeId).       *)
(***************************************************************************)
MaxTopoDevices == 5

gpuLabelKeys == <<"gpu0", "gpu1", "gpu2", "gpu3">>
nicLabelKeys == <<"nic0", "nic1", "nic2", "nic3", "nic4", "nic5">>

min(a, b) == IF a < b THEN a ELSE b
max(a, b) == IF a > b THEN a ELSE b

topologyLevelToString(level) ==
    CASE level = "TOPOLOGY_INTERNAL" -> "SOC"
      [] level = "TOPOLOGY_SINGLE" -> "PIX"
      [] level = "TOPOLOGY_MULTIPLE" -> "PXB"
      [] level = "TOPOLOGY_HOSTBRIDGE" -> "PHB"
      [] level = "TOPOLOGY_NODE" -> "NODE"
      [] level = "TOPOLOGY_SYSTEM" -> "SYS"
      [] OTHER -> "UNKNOWN"

\* the log of the ancestor queries: how often each (a, b) was asked
Logged(queries, q) ==
    IF q \in DOMAIN queries THEN [queries EXCEPT ![q] = @ + 1] ELSE (q :> 1) @@ queries

\* devices[a].GetTopologyCommonAncestor(devices[b])
GetTopologyCommonAncestor(env, a, b) == env.anc[a]

getTopologyLabel_OrderedKey(st, a, b, env) ==
    IF a = b THEN [label |-> "X", cache |-> st.cache, queries |-> st.queries]
    ELSE IF <<a, b>> \in DOMAIN st.cache
    THEN [label |-> st.cache[<<a, b>>], cache |-> st.cache, queries |-> st.queries]
    ELSE LET ans == GetTopologyCommonAncestor(env, a, b)
             label == IF ans.ret = "SUCCESS" THEN topologyLevelToString(ans.level) ELSE "unknown"
         IN [label |-> label,
             cache |-> (<<a, b>> :> label) @@ st.cache,
             queries |-> Logged(st.queries, <<a, b>>)]

getTopologyLabel_CacheSuccessOnly(st, a, b, env) ==
    IF a = b THEN [label |-> "X", cache |-> st.cache, queries |-> st.queries]
    ELSE IF <<min(a, b), max(a, b)>> \in DOMAIN st.cache
    THEN [label |-> st.cache[<<min(a, b), max(a, b)>>], cache |-> st.cache, queries |-> st.queries]
    ELSE LET ans == GetTopologyCommonAncestor(env, a, b)
             label == IF ans.ret = "SUCCESS" THEN topologyLevelToString(ans.level) ELSE "unknown"
         IN [label |-> label,
             cache |-> IF ans.ret = "SUCCESS"
                       THEN (<<min(a, b), max(a, b)>> :> label) @@ st.cache
                       ELSE st.cache,
             queries |-> Logged(st.queries, <<a, b>>)]

\* the closure of collectGpuTopologyInfo: st carries topologyCache and the
\* log of the ancestor queries issued so far
getTopologyLabel(st, a, b, env) ==
    IF a = b THEN [label |-> "X", cache |-> st.cache, queries |-> st.queries]
    ELSE IF <<min(a, b), max(a, b)>> \in DOMAIN st.cache
    THEN [label |-> st.cache[<<min(a, b), max(a, b)>>], cache |-> st.cache, queries |-> st.queries]
    ELSE LET ans == GetTopologyCommonAncestor(env, a, b)
             label == IF ans.ret = "SUCCESS" THEN topologyLevelToString(ans.level) ELSE "unknown"
         IN [label |-> label,
             cache |-> (<<min(a, b), max(a, b)>> :> label) @@ st.cache,
             queries |-> Logged(st.queries, <<a, b>>)]

Uuid(i) == "GPU-" \o ToString(i)

\* the loop over gpuLabelKeys for device i, from column idx on
RECURSIVE gpuLabels(_, _, _, _)
gpuLabels(st, i, idx, env) ==
    IF idx >= Len(gpuLabelKeys) THEN st
    ELSE IF idx >= env.n
    THEN gpuLabels([st EXCEPT !.labels = (gpuLabelKeys[idx + 1] :> "absent") @@ @], i, idx + 1, env)
    ELSE Then(getTopologyLabel(st, i, idx, env),
              LAMBDA r : gpuLabels([st EXCEPT !.labels = (gpuLabelKeys[idx + 1] :> r.label) @@ @,
                                              !.cache = r.cache,
                                              !.queries = r.queries], i, idx + 1, env))

nicLabels == [k \in {nicLabelKeys[x] : x \in 1..Len(nicLabelKeys)} |-> "unknown"]

numaLabels(numa) ==
    IF numa.ret = "SUCCESS"
    THEN ("numa_affinity" :> ("node-" \o ToString(numa.node))) @@ ("gpu_numa_id" :> ToString(numa.node))
    ELSE ("numa_affinity" :> "unknown") @@ ("gpu_numa_id" :> "unknown")

EmptyTopoRun == [gauge |-> {}, cache |-> <<>>, queries |-> <<>>, labels |-> <<>>, err |-> FALSE]

\* the loop over the devices, from device i on
RECURSIVE topoDevices(_, _, _)
topoDevices(st, i, env) ==
    IF i >= env.n THEN st
    ELSE IF env.infoErr = i THEN [st EXCEPT !.err = TRUE]
    ELSE Then(gpuLabels([st EXCEPT !.labels = ("UUID" :> Uuid(i)) @@ ("name" :> "GPU")], i, 0, env),
              LAMBDA r : topoDevices(
                  [r EXCEPT !.gauge = @ \cup
                      {r.labels @@ nicLabels
                                @@ ("cpu_affinity" :> getCpuAffinityString(env.aff, env.numCPUs))
                                @@ numaLabels(env.numa)},
                            !.labels = <<>>], i + 1, env))

collectGpuTopologyInfo(env) == topoDevices(EmptyTopoRun, 0, env)

\* getNVLinkConnection of the earlier builder: "NV<count>" for the links of
\* device1 whose remote end is device2, "" when there is none
getNVLinkConnection(env, device1, device2) ==
    LET count == Cardinality({link \in 1..MaxLinks : env.remote[device1][link] = device2})
    IN IF count > 0 THEN "NV" \o ToString(count) ELSE ""

TopoAnswers ==
    { [ret |-> "ERROR_UNKNOWN", level |-> "TOPOLOGY_INTERNAL"],
      [ret |-> "SUCCESS", level |-> "TOPOLOGY_SINGLE"],
      [ret |-> "SUCCESS", level |-> "TOPOLOGY_SYSTEM"] }

NoLinks(n) == [a \in 0..(n - 1) |-> [link \in 1..MaxLinks |-> -1]]
\* every link of device 0 ends at device 1 and every link of device 1 at device 0
PairLinks(n) ==
    [a \in 0..(n - 1) |-> [link \in 1..MaxLinks |->
        IF n >= 2 /\ a = 0 THEN 1 ELSE IF n >= 2 /\ a = 1 THEN 0 ELSE -1]]

TopoAffinities ==
    { [ret |-> "SUCCESS", mask |-> << [b \in 1..UintSize |-> IF b <= 2 THEN 1 ELSE 0] >>],
      [ret |-> "ERROR_NOT_SUPPORTED", mask |-> <<>>] }

TopoNumas == { [ret |-> "SUCCESS", node |-> 0], [ret |-> "ERROR_NOT_SUPPORTED", node |-> 0] }

DefaultTopoEnv ==
    [n |-> 0, infoErr |-> -1, anc |-> <<>>, remote |-> <<>>,
     aff |-> [ret |-> "ERROR_NOT_SUPPORTED", mask |-> <<>>], numCPUs |-> 0,
     numa |-> [ret |-> "ERROR_NOT_SUPPORTED", node |-> 0]]

\* the answers of a build over n devices
TopoEnvs(n) ==
    { [n |-> n, infoErr |-> e, anc |-> anc, remote |-> remote,
       aff |-> aff, numCPUs |-> UintSize, numa |-> numa] :
        e \in -1..(n - 1),
        anc \in [0..(n - 1) -> TopoAnswers],
        remote \in {NoLinks(n), PairLinks(n)},
        aff \in TopoAffinities,
        numa \in TopoNumas }

\* getTopologyLabel asked for pairs in any order, any number of times
MaxLookups == 3

LookupAnswers ==
    { [ret |-> "ERROR_UNKNOWN", level |-> "TOPOLOGY_INTERNAL"],
      [ret |-> "SUCCESS", level |-> "TOPOLOGY_SINGLE"] }

LookupEnvs(n) == { [DefaultTopoEnv EXCEPT !.n = n, !.anc = anc] : anc \in [0..(n - 1) -> LookupAnswers] }

EmptyLookup ==
    [env |-> DefaultTopoEnv, st |-> [cache |-> <<>>, queries |-> <<>>], results |-> {}, calls |-> 0]

TpIdle == tpStage = "idle" /\ tpEnv = DefaultTopoEnv /\ tpRun = EmptyTopoRun /\ tpLook = EmptyLookup

TopoCollect ==
    /\ tpStage = "idle"
    /\ tpLook = EmptyLookup
    /\ \E n \in 1..MaxTopoDevices : \E env \in TopoEnvs(n) :
         /\ tpEnv' = env
         /\ tpRun' = collectGpuTopologyInfo(env)
    /\ tpStage' = "done"
    /\ UNCHANGED tpLook

TopoLookup ==
    /\ tpStage = "idle"
    /\ tpLook.calls < MaxLookups
    /\ \E n \in 2..MaxLookups : \E env \in LookupEnvs(n) :
         /\ tpLook.calls = 0 \/ env = tpLook.env
         /\ \E a \in 0..(env.n - 1), b \in 0..(env.n - 1) :
              tpLook' = Then(getTopologyLabel(tpLook.st, a, b, env),
                             LAMBDA r : [env |-> env,
                                         st |-> [cache |-> r.cache, queries |-> r.queries],
                                         results |-> tpLook.results \cup {<<a, b, r.label>>},
                                         calls |-> tpLook.calls + 1])
    /\ UNCHANGED <<tpStage, tpEnv, tpRun>>

TopoNext == TopoCollect \/ TopoLookup

(***************************************************************************)
(* NIC discovery over NVLink.  env holds what NVML answers: n devices and, *)
(* for every device and link, the link state, the remote device type and   *)
(* the remote PCI bus id (each with its return).                           *)
(***************************************************************************)
MaxNicDevices == 4
MaxNicIds == 7

\* the bus id as the string that keys a NIC
pciBusIdToString(busId) == "0000:" \o ToString(busId)

EmptyNicRun == [nicByKey |-> <<>>, nicList |-> <<>>]

\* one iteration of the inner loop: link of device i
discoverNicLink_ConnectOnCreate(st, i, link, env) ==
    LET a == env.links[i][link + 1]
    IN IF a.stateRet # "SUCCESS" \/ a.state # "FEATURE_ENABLED" THEN st
       ELSE IF a.typeRet # "SUCCESS" \/ a.remoteType # "NVLINK_DEVICE_TYPE_IBMNPU" THEN st
       ELSE IF a.pciRet # "SUCCESS" THEN st
       ELSE LET pciKey == pciBusIdToString(a.busId)
            IN IF pciKey \in DOMAIN st.nicByKey THEN st
               ELSE IF Len(st.nicList) >= Len(nicLabelKeys) THEN st
               ELSE [nicByKey |-> (pciKey :> (Len(st.nicList) + 1)) @@ st.nicByKey,
                     nicList |-> Append(st.nicList,
                                        [label |-> nicLabelKeys[Len(st.nicList) + 1],
                                         pciKey |-> pciKey,
                                         connections |-> {i}])]

discoverNicLink(st, i, link, env) ==
    LET a == env.links[i][link + 1]
    IN IF a.stateRet # "SUCCESS" \/ a.state # "FEATURE_ENABLED" THEN st
       ELSE IF a.typeRet # "SUCCESS" \/ a.remoteType # "NVLINK_DEVICE_TYPE_IBMNPU" THEN st
       ELSE IF a.pciRet # "SUCCESS" THEN st
       ELSE LET pciKey == pciBusIdToString(a.busId)
            IN IF pciKey \in DOMAIN st.nicByKey
               THEN [st EXCEPT !.nicList[st.nicByKey[pciKey]].connections = @ \cup {i}]
               ELSE IF Len(st.nicList) >= Len(nicLabelKeys) THEN st
               ELSE [nicByKey |-> (pciKey :> (Len(st.nicList) + 1)) @@ st.nicByKey,
                     nicList |-> Append(st.nicList,
                                        [label |-> nicLabelKeys[Len(st.nicList) + 1],
                                         pciKey |-> pciKey,
                                         connections |-> {i}])]

\* the two nested loops, from the g-th (device, link) pair on
RECURSIVE discoverNicLinksFrom(_, _, _)
discoverNicLinksFrom(st, g, env) ==
    IF g >= env.n * MaxLinks THEN st
    ELSE Then(discoverNicLink(st, g \div MaxLinks, g % MaxLinks, env),
              LAMBDA r : discoverNicLinksFrom(r, g + 1, env))

discoverNicLinks(env) == discoverNicLinksFrom(EmptyNicRun, 0, env).nicList

\* what one link can answer
NicLink(busId) ==
    [stateRet |-> "SUCCESS", state |-> "FEATURE_ENABLED",
     typeRet |-> "SUCCESS", remoteType |-> "NVLINK_DEVICE_TYPE_IBMNPU",
     pciRet |-> "SUCCESS", busId |-> busId]

LinkKinds == {"nic", "stateFail", "disabled", "typeFail", "gpu", "pciFail"}

LinkAnswer(kind, busId) ==
    CASE kind = "nic" -> NicLink(busId)
      [] kind = "stateFail" -> [NicLink(busId) EXCEPT !.stateRet = "ERROR_UNKNOWN"]
      [] kind = "disabled" -> [NicLink(busId) EXCEPT !.state = "FEATURE_DISABLED"]
      [] kind = "typeFail" -> [NicLink(busId) EXCEPT !.typeRet = "ERROR_NOT_SUPPORTED"]
      [] kind = "gpu" -> [NicLink(busId) EXCEPT !.remoteType = "NVLINK_DEVICE_TYPE_GPU"]
      [] kind = "pciFail" -> [NicLink(busId) EXCEPT !.pciRet = "ERROR_UNKNOWN"]

DefaultNicEnv == [n |-> 0, links |-> <<>>]

\* n devices whose links reach ids distinct bus ids in rotation; the links
\* of one device, odd, answer in any way, those of the others reach a NIC
NicEnvs(n) ==
    { [n |-> n,
       links |-> [i \in 0..(n - 1) |-> [l \in 1..MaxLinks |->
           LinkAnswer(IF i = odd THEN kinds[l] ELSE "nic",
                      (i * MaxLinks + l - 1) % ids)]]] :
        odd \in 0..(n - 1),
        ids \in 1..MaxNicIds,
        kinds \in [1..MaxLinks -> LinkKinds] }

NicIdle == nicStage = "idle" /\ nicEnv = DefaultNicEnv /\ nicRun = <<>>

NicCollect ==
    /\ nicStage = "idle"
    /\ \E n \in 1..MaxNicDevices : \E env \in NicEnvs(n) :
         /\ nicEnv' = env
         /\ nicRun' = discoverNicLinks(env)
    /\ nicStage' = "done"

(***************************************************************************)
(* The affinity formatters applied to a mask: afIn is what GetCpuAffinity  *)
(* answered (return, mask) and the CPU count it was asked with.            *)
(***************************************************************************)
\* the word that has exactly the bits of S set
WordOf(S) == [b \in 1..UintSize |-> IF (b - 1) \in S THEN 1 ELSE 0]
AffinityWords ==
    { WordOf(S) : S \in { {}, {0}, {5}, {1, 2}, {0, 2, 4}, {0, 1, 2, 3}, {0, 1, 2, 5, 7, 8},
                          {UintSize - 1}, {UintSize - 2, UintSize - 1}, {0, UintSize - 1} } }
\* the masks of len words
AffinityMasks(len) == [1..len -> AffinityWords]
\* a mask of len words read with a CPU count
AffinityInputs(len) ==
    { [ret |-> "SUCCESS", mask |-> mask, numCPUs |-> numCPUs] :
        mask \in AffinityMasks(len), numCPUs \in {4, UintSize, MaxMaskWords * UintSize} }
    \cup { [ret |-> "ERROR_NOT_SUPPORTED", mask |-> <<>>, numCPUs |-> UintSize] }

NoAffinityInput == [ret |-> "ERROR_NOT_SUPPORTED", mask |-> <<>>, numCPUs |-> 0]
NoAffinityOutput == [current |-> "", legacy |-> ""]

AfIdle == afStage = "idle" /\ afIn = NoAffinityInput /\ afOut = NoAffinityOutput

AfInit ==
    /\ afStage = "input"
    /\ \E len \in 0..MaxMaskWords : afIn \in AffinityInputs(len)
    /\ afOut = NoAffinityOutput

AfFormat ==
    /\ afStage = "input"
    /\ afOut' = [current |-> getCpuAffinityString([ret |-> afIn.ret, mask |-> afIn.mask], afIn.numCPUs),
                 legacy |-> formatCpuAffinity(afIn.mask)]
    /\ afStage' = "formatted"
    /\ UNCHANGED afIn

(***************************************************************************)
(* The collectors over a device list.  Every collector is a loop over the  *)
(* devices whose body ends early, with continue, when a query fails.       *)
(***************************************************************************)
\* collectClockEventReasons for one device, its fields taken as one
clockEventDevice(env) ==
    IF env.uuidRet # "SUCCESS" THEN [written |-> FALSE, log |-> {"failed to get UUID for device"}]
    ELSE IF env.pciRet # "SUCCESS" THEN [written |-> FALSE, log |-> {"failed to get PCI info"}]
    ELSE IF env.batchRet # "SUCCESS"
    THEN [written |-> FALSE,
          log |-> IF env.batchRet # "ERROR_NOT_SUPPORTED" THEN {"failed to get clock event fields"} ELSE {}]
    ELSE IF env.fieldRet # "SUCCESS"
    THEN [written |-> FALSE,
          log |-> IF env.fieldRet # "ERROR_NOT_SUPPORTED" THEN {"clock event field unavailable"} ELSE {}]
    ELSE IF env.decodeErr THEN [written |-> FALSE, log |-> {"failed to decode clock event field"}]
    ELSE [written |-> TRUE, log |-> {}]

\* what a pass leaves behind for one device: whether samples were written
\* and whether anything was logged
FabricOutcome(run) == [written |-> run.written, warned |-> run.log # {}]
NvlinkOutcome(run) == [written |-> DOMAIN run.samples # {}, warned |-> run.log # {}]
ClockOutcome(run) == [written |-> run.written, warned |-> run.log # {}]

\* a device loop that returns at the first device that could not be read
RECURSIVE collectFabricHealthDevices_ReturnOnFailure(_, _)
collectFabricHealthDevices_ReturnOnFailure(done, envs) ==
    IF Len(envs) = 0 THEN done
    ELSE Then(FabricOutcome(collectFabricHealth(Head(envs).fabric)),
              LAMBDA r : IF ~r.written THEN Append(done, r)
                         ELSE collectFabricHealthDevices_ReturnOnFailure(Append(done, r), Tail(envs)))

\* for _, device := range devices of collectFabricHealth
RECURSIVE collectFabricHealthDevices(_, _)
collectFabricHealthDevices(done, envs) ==
    IF Len(envs) = 0 THEN done
    ELSE Then(FabricOutcome(collectFabricHealth(Head(envs).fabric)),
              LAMBDA r : collectFabricHealthDevices(Append(done, r), Tail(envs)))

\* for _, device := range devices of collectNVLinkErrors
RECURSIVE collectNVLinkErrorsDevices(_, _)
collectNVLinkErrorsDevices(done, envs) ==
    IF Len(envs) = 0 THEN done
    ELSE Then(NvlinkOutcome(collectNVLinkErrors(Head(envs).nvlink)),
              LAMBDA r : collectNVLinkErrorsDevices(Append(done, r), Tail(envs)))

\* for _, device := range devices of collectClockEventReasons
RECURSIVE collectClockEventReasons(_, _)
collectClockEventReasons(done, envs) ==
    IF Len(envs) = 0 THEN done
    ELSE Then(ClockOutcome(clockEventDevice(Head(envs).clock)),
              LAMBDA r : collectClockEventReasons(Append(done, r), Tail(envs)))

(***************************************************************************)
(* What NVML answers for a device during the passes, by the kind of fault  *)
(* the device has.                                                         *)
(***************************************************************************)
FaultKinds == {"none", "uuid", "pci", "query", "decode"}

AllLinksEnabled == [l \in Links |-> Enabled]
HealthyNvEnv == [DefaultEnv EXCEPT !.linkBuild = AllLinksEnabled, !.linkRead = AllLinksEnabled]
HealthyClockEnv ==
    [uuidRet |-> "SUCCESS", pciRet |-> "SUCCESS", batchRet |-> "SUCCESS",
     fieldRet |-> "SUCCESS", decodeErr |-> FALSE]

DeviceEnv(fault) ==
    CASE fault = "uuid" ->
           [fabric |-> [DefaultFabricEnv EXCEPT !.uuidRet = "ERROR_UNKNOWN"],
            nvlink |-> [HealthyNvEnv EXCEPT !.uuidRet = "ERROR_UNKNOWN"],
            clock  |-> [HealthyClockEnv EXCEPT !.uuidRet = "ERROR_UNKNOWN"]]
      [] fault = "pci" ->
           [fabric |-> [DefaultFabricEnv EXCEPT !.pciRet = "ERROR_UNKNOWN"],
            nvlink |-> [HealthyNvEnv EXCEPT !.pciRet = "ERROR_UNKNOWN"],
            clock  |-> [HealthyClockEnv EXCEPT !.pciRet = "ERROR_UNKNOWN"]]
      [] fault = "query" ->
           [fabric |-> [DefaultFabricEnv EXCEPT !.fabricRet = "ERROR_UNKNOWN"],
            nvlink |-> [HealthyNvEnv EXCEPT !.batchRet = "ERROR_UNKNOWN"],
            clock  |-> [HealthyClockEnv EXCEPT !.batchRet = "ERROR_UNKNOWN"]]
      [] fault = "decode" ->
           [fabric |-> DefaultFabricEnv,
            nvlink |-> [HealthyNvEnv EXCEPT !.odd = [fieldId |-> nvlinkErrorFields[1].fieldId, link |-> 0,
                                                     ret |-> "SUCCESS", type |-> "UNSIGNED_SHORT"]],
            clock  |-> [HealthyClockEnv EXCEPT !.decodeErr = TRUE]]
      [] OTHER ->
           [fabric |-> DefaultFabricEnv, nvlink |-> HealthyNvEnv, clock |-> HealthyClockEnv]

\* the device lists a pass can meet: at most one device has a fault
NumSchedDevices == 2
SchedFaults ==
    { [d \in 1..NumSchedDevices |-> IF d = bad THEN fault ELSE "none"] :
        bad \in 1..NumSchedDevices, fault \in FaultKinds }

(***************************************************************************)
(* startCollectors: the caller registers the metrics, starts the           *)
(* collection goroutine and returns; the goroutine creates the ticker,     *)
(* runs one pass and then one pass for every tick it receives.  The        *)
(* channel of a time.Ticker holds one tick: a tick that fires while one is *)
(* pending is dropped.                                                     *)
(***************************************************************************)
MaxTicks == 3

passOrder_NvlinkFirst == <<"nvlink", "fabric", "clock">>

\* the collector calls of a pass, in program order
passOrder == <<"fabric", "nvlink", "clock">>

runCollector(name, envs) ==
    CASE name = "fabric" -> collectFabricHealthDevices(<<>>, envs)
      [] name = "nvlink" -> collectNVLinkErrorsDevices(<<>>, envs)
      [] name = "clock" -> collectClockEventReasons(<<>>, envs)

NoTicker == [created |-> FALSE, pending |-> 0, elapsed |-> 0, dropped |-> 0]
NewPass(kind, returned) == [kind |-> kind, ran |-> <<>>, returned |-> returned]

SchedIdle ==
    /\ scMain = "idle" /\ scPc = "none" /\ scTicker = NoTicker
    /\ scPasses = <<>> /\ scFaults = <<>>

SchedInit ==
    /\ scMain = "call" /\ scPc = "none" /\ scTicker = NoTicker
    /\ scPasses = <<>> /\ scFaults \in SchedFaults

\* the caller: prometheus.MustRegister(...) and the go statement
SchedSpawn ==
    /\ scMain = "call"
    /\ scMain' = "spawned"
    /\ scPc' = "new"
    /\ UNCHANGED <<scTicker, scPasses, scFaults>>

\* the caller: logger.Info("started collectors") and the return
SchedReturn ==
    /\ scMain = "spawned"
    /\ scMain' = "returned"
    /\ UNCHANGED <<scPc, scTicker, scPasses, scFaults>>

\* the goroutine: time.NewTicker(interval), then on to the first pass
SchedNewTicker ==
    /\ scPc = "new"
    /\ scTicker' = [scTicker EXCEPT !.created = TRUE]
    /\ scPasses' = <<NewPass("initial", scMain = "returned")>>
    /\ scPc' = "collect"
    /\ UNCHANGED <<scMain, scFaults>>

\* the goroutine: the next collector call of the pass under way
SchedCollect ==
    /\ scPc = "collect"
    /\ LET pass == scPasses[Len(scPasses)]
           name == passOrder[Len(pass.ran) + 1]
           envs == [d \in 1..Len(scFaults) |-> DeviceEnv(scFaults[d])]
           ran  == Append(pass.ran, [collector |-> name, devices |-> runCollector(name, envs)])
       IN /\ scPasses' = [scPasses EXCEPT ![Len(scPasses)].ran = ran]
          /\ scPc' = IF Len(ran) = Len(passOrder) THEN "wait" ELSE "collect"
    /\ UNCHANGED <<scMain, scTicker, scFaults>>

\* a pass for every tick in a goroutine of its own
SchedReceive_PassPerGoroutine ==
    /\ scPc \in {"wait", "collect"}
    /\ scTicker.pending > 0
    /\ scTicker' = [scTicker EXCEPT !.pending = @ - 1]
    /\ scPasses' = Append(scPasses, NewPass("tick", scMain = "returned"))
    /\ scPc' = "collect"
    /\ UNCHANGED <<scMain, scFaults>>

\* the goroutine: for range ticker.C receives the pending tick
SchedReceive ==
    /\ scPc = "wait"
    /\ scTicker.pending > 0
    /\ scTicker' = [scTicker EXCEPT !.pending = @ - 1]
    /\ scPasses' = Append(scPasses, NewPass("tick", scMain = "returned"))
    /\ scPc' = "collect"
    /\ UNCHANGED <<scMain, scFaults>>

\* a ticker whose channel queues every tick
SchedTick_QueueEveryTick ==
    /\ scTicker.created
    /\ scTicker.elapsed < MaxTicks
    /\ scTicker' = [scTicker EXCEPT !.elapsed = @ + 1, !.pending = @ + 1]
    /\ UNCHANGED <<scMain, scPc, scPasses, scFaults>>

\* an interval elapses: the ticker sends without blocking on its channel
SchedTick ==
    /\ scTicker.created
    /\ scTicker.elapsed < MaxTicks
    /\ scTicker' = IF scTicker.pending = 0
                   THEN [scTicker EXCEPT !.elapsed = @ + 1, !.pending = 1]
                   ELSE [scTicker EXCEPT !.elapsed = @ + 1, !.dropped = @ + 1]
    /\ UNCHANGED <<scMain, scPc, scPasses, scFaults>>

SchedNext ==
    \/ SchedSpawn
    \/ SchedReturn
    \/ SchedNewTicker
    \/ SchedCollect
    \/ SchedReceive
    \/ SchedTick

(***************************************************************************)
(* The Xid event collector: startXidEventCollector creates the event set,  *)
(* registers the devices and starts a goroutine that waits for events in a *)
(* loop.  xeSt holds xidCounts (the in-memory counts), xidErrors (the      *)
(* exported counter) and the log; a wait result is what EventSetWait       *)
(* returned, with the event and what the device of the event answers to    *)
(* GetUUID and GetPciInfo.                                                 *)
(***************************************************************************)
MaxWaits == 3
NumXidDevices == 2

formatXid(xid) == ToString(xid)

\* count + 1 under key, 1 for a key that is new
Incremented(counts, key) ==
    IF key \in DOMAIN counts THEN [counts EXCEPT ![key] = @ + 1] ELSE (key :> 1) @@ counts

\* a handler that does not look at the answer of GetPciInfo
handleXidEvent_IgnorePciFailure(st, event) ==
    IF event.uuidRet # "SUCCESS"
    THEN [st EXCEPT !.log = Incremented(@, "Failed to get UUID for device in Xid event")]
    ELSE [st EXCEPT
            !.xidCounts = Incremented(@, [UUID |-> Uuid(event.Device), Xid |-> event.EventData]),
            !.xidErrors = Incremented(@, <<Uuid(event.Device), pciBusIdToString(event.Device),
                                           formatXid(event.EventData)>>),
            !.log = Incremented(@, "Xid error detected")]

\* a handler that stores 1 whether or not the key is already there
handleXidEvent_StoreOne(st, event) ==
    IF event.uuidRet # "SUCCESS"
    THEN [st EXCEPT !.log = Incremented(@, "Failed to get UUID for device in Xid event")]
    ELSE IF event.pciRet # "SUCCESS"
    THEN [st EXCEPT !.log = Incremented(@, "Failed to get PCI info for device in Xid event")]
    ELSE [st EXCEPT
            !.xidCounts = ([UUID |-> Uuid(event.Device), Xid |-> event.EventData] :> 1) @@ @,
            !.xidErrors = Incremented(@, <<Uuid(event.Device), pciBusIdToString(event.Device),
                                           formatXid(event.EventData)>>),
            !.log = Incremented(@, "Xid error detected")]

handleXidEvent(st, event) ==
    IF event.uuidRet # "SUCCESS"
    THEN [st EXCEPT !.log = Incremented(@, "Failed to get UUID for device in Xid event")]
    ELSE IF event.pciRet # "SUCCESS"
    THEN [st EXCEPT !.log = Incremented(@, "Failed to get PCI info for device in Xid event")]
    ELSE [st EXCEPT
            !.xidCounts = Incremented(@, [UUID |-> Uuid(event.Device), Xid |-> event.EventData]),
            !.xidErrors = Incremented(@, <<Uuid(event.Device), pciBusIdToString(event.Device),
                                           formatXid(event.EventData)>>),
            !.log = Incremented(@, "Xid error detected")]

\* a loop body that gives up after a wait error
xidLoopBody_ReturnOnWaitError(st, res) ==
    IF res.ret = "ERROR_TIMEOUT" THEN st
    ELSE IF res.ret # "SUCCESS"
    THEN [st EXCEPT !.log = Incremented(@, "Error waiting for events"), !.pc = "returned"]
    ELSE IF "XidCriticalError" \in res.event.EventType THEN handleXidEvent(st, res.event)
    ELSE st

\* a loop body without the case for the timeout
xidLoopBody_TimeoutIsAnError(st, res) ==
    IF res.ret # "SUCCESS" THEN [st EXCEPT !.log = Incremented(@, "Error waiting for events")]
    ELSE IF "XidCriticalError" \in res.event.EventType THEN handleXidEvent(st, res.event)
    ELSE st

\* one turn of the for loop, from the return of EventSetWait to the next wait
xidLoopBody(st, res) ==
    IF res.ret = "ERROR_TIMEOUT" THEN st
    ELSE IF res.ret # "SUCCESS" THEN [st EXCEPT !.log = Incremented(@, "Error waiting for events")]
    ELSE IF "XidCriticalError" \in res.event.EventType THEN handleXidEvent(st, res.event)
    ELSE st

NoEvent == [EventType |-> {}, Device |-> 0, EventData |-> 0, uuidRet |-> "SUCCESS", pciRet |-> "SUCCESS"]
NoResult == [ret |-> "NONE", event |-> NoEvent]

XidEvents ==
    { [EventType |-> {"XidCriticalError"}, Device |-> d, EventData |-> xid, uuidRet |-> u, pciRet |-> p] :
        d \in 0..(NumXidDevices - 1), xid \in {13, 79},
        u \in {"SUCCESS", "ERROR_UNKNOWN"}, p \in {"SUCCESS", "ERROR_UNKNOWN"} }
    \cup { [NoEvent EXCEPT !.EventType = {"SingleBitEccError"}] }

WaitResults ==
    { [ret |-> "ERROR_TIMEOUT", event |-> NoEvent], [ret |-> "ERROR_UNKNOWN", event |-> NoEvent] }
    \cup { [ret |-> "SUCCESS", event |-> e] : e \in XidEvents }

EmptyXidState == [pc |-> "none", xidCounts |-> <<>>, xidErrors |-> <<>>, log |-> <<>>]
NoXidHistory == [waits |-> 0, waitErrors |-> 0, handled |-> <<>>]

XidIdle == xeSt = EmptyXidState /\ xeLast = NoResult /\ xeHist = NoXidHistory

NvmlReturns == {"SUCCESS", "ERROR_UNKNOWN"}

\* a collector start that gives up at the first device it cannot register
startXidEventCollector_RegisterOrFail(createRet, regRets) ==
    IF createRet # "SUCCESS"
    THEN [err |-> "failed to create event set: " \o createRet, attempts |-> <<>>,
          subscribed |-> {}, warnings |-> 0, loop |-> FALSE]
    ELSE IF \E d \in DOMAIN regRets : regRets[d] # "SUCCESS"
    THEN [err |-> "failed to register events", attempts |-> Tuple([d \in DOMAIN regRets |-> d - 1]),
          subscribed |-> {}, warnings |-> 0, loop |-> FALSE]
    ELSE [err |-> "nil", attempts |-> Tuple([d \in DOMAIN regRets |-> d - 1]),
          subscribed |-> {d - 1 : d \in DOMAIN regRets}, warnings |-> 0, loop |-> TRUE]

\* startXidEventCollector: EventSetCreate, DeviceRegisterEvents for every
\* device of the list in turn, the go statement.  regRets[d + 1] is the
\* answer to the registration of device d.
startXidEventCollector(createRet, regRets) ==
    IF createRet # "SUCCESS"
    THEN [err |-> "failed to create event set: " \o createRet, attempts |-> <<>>,
          subscribed |-> {}, warnings |-> 0, loop |-> FALSE]
    ELSE [err |-> "nil",
          attempts |-> Tuple([d \in DOMAIN regRets |-> d - 1]),
          subscribed |-> {d - 1 : d \in {e \in DOMAIN regRets : regRets[e] = "SUCCESS"}},
          warnings |-> Cardinality({d \in DOMAIN regRets : regRets[d] # "SUCCESS"}),
          loop |-> TRUE]

\* startXidEventCollector runs and, when it returns without an error, has
\* started the goroutine of the loop
XidStart ==
    /\ xeSt.pc = "none"
    /\ \E createRet \in NvmlReturns, regRets \in [1..NumXidDevices -> NvmlReturns] :
         LET r == startXidEventCollector(createRet, regRets) IN
         xeSt' = IF ~r.loop THEN [xeSt EXCEPT !.pc = "failed"]
                 ELSE IF r.warnings > 0
                 THEN [xeSt EXCEPT !.pc = "wait",
                                   !.log = ("Warning: failed to register events for device" :> r.warnings) @@ @]
                 ELSE [xeSt EXCEPT !.pc = "wait"]
    /\ UNCHANGED <<xeLast, xeHist>>

\* the wait returned an event that handleXidEvent takes to its last line
HandledToTheEnd(res) ==
    /\ res.ret = "SUCCESS"
    /\ "XidCriticalError" \in res.event.EventType
    /\ res.event.uuidRet = "SUCCESS" /\ res.event.pciRet = "SUCCESS"

\* the history with one more event of this UUID and Xid
Recorded(handled, event) ==
    LET key == [UUID |-> Uuid(event.Device), Xid |-> event.EventData]
        seen == IF key \in DOMAIN handled THEN handled[key] ELSE 0
    IN  [k \in DOMAIN handled \cup {key} |-> IF k = key THEN seen + 1 ELSE handled[k]]

\* a loop that takes its turn only while the polling goroutine is between
\* two passes
XidWaitOf_BetweenPasses(results) ==
    /\ scPc = "wait"
    /\ xeSt.pc = "wait"
    /\ xeHist.waits < MaxWaits
    /\ \E res \in results :
         /\ xeLast' = res
         /\ xeSt' = xidLoopBody(xeSt, res)
         /\ xeHist' = [waits |-> xeHist.waits + 1,
                       waitErrors |-> xeHist.waitErrors + (IF res.ret # "SUCCESS" THEN 1 ELSE 0),
                       handled |-> IF HandledToTheEnd(res)
                                   THEN Recorded(xeHist.handled, res.event)
                                   ELSE xeHist.handled]

\* EventSetWait returns one of the results and the loop body runs
XidWaitOf(results) ==
    /\ xeSt.pc = "wait"
    /\ xeHist.waits < MaxWaits
    /\ \E res \in results :
         /\ xeLast' = res
         /\ xeSt' = xidLoopBody(xeSt, res)
         /\ xeHist' = [waits |-> xeHist.waits + 1,
                       waitErrors |-> xeHist.waitErrors + (IF res.ret # "SUCCESS" THEN 1 ELSE 0),
                       handled |-> IF HandledToTheEnd(res)
                                   THEN Recorded(xeHist.handled, res.event)
                                   ELSE xeHist.handled]

XidWait == XidWaitOf(WaitResults)

XidNext == XidStart \/ XidWait

(***************************************************************************)
(* Startup.  Run loads the GPU inventory, sets and registers the info      *)
(* metrics, starts the polling goroutine and the Xid event collector and   *)
(* serves HTTP.  rnEnv is the device lister Run was called with: the       *)
(* answer of GpuInfo(i) for every index.  rnSt holds the position of Run,  *)
(* the inventory it loaded, the error it returned, the metrics registered, *)
(* the series of gpu_info and exporter_info, what has been started and the *)
(* calls made so far.                                                      *)
(***************************************************************************)
MaxRunDevices == 2

GpuInfoOf(uuid, name) ==
    [UUID |-> uuid, PciBusId |-> "00000000:01:00.0", Name |-> name, Brand |-> "Nvidia",
     Serial |-> "", BoardId |-> "", OemInforomVersion |-> "", EccInforomVersion |-> "",
     PowerInforomVersion |-> "", VbiosVersion |-> "", InforomImageVersion |-> "",
     IbGuid |-> "", ChassisSerialNumber |-> "", SlotNumber |-> "", TrayIndex |-> "",
     HostId |-> "", PeerType |-> "", ModuleId |-> "", GpuFabricGuid |-> ""]

NoGpuInfo == GpuInfoOf("", "")

\* what GpuInfo(i) can answer: an error, or the inventory of a device
GpuInfoAnswers ==
    { [err |-> "boom", info |-> NoGpuInfo] }
    \cup { [err |-> "nil", info |-> GpuInfoOf(Uuid(u), name)] :
             u \in 0..(MaxRunDevices - 1), name \in {"H100", "GB200"} }

\* the listers of n devices
Listers(n) == { [count |-> n, gpu |-> answers] : answers \in [1..n -> GpuInfoAnswers] }

NoLister == [count |-> 0, gpu |-> <<>>]

\* a loader that leaves out a device whose query failed
RECURSIVE loadGpuInfosFrom_SkipFailed(_, _, _)
loadGpuInfosFrom_SkipFailed(lister, i, infos) ==
    IF i >= lister.count THEN [nil |-> FALSE, infos |-> infos, err |-> "nil"]
    ELSE IF lister.gpu[i + 1].err # "nil"
    THEN loadGpuInfosFrom_SkipFailed(lister, i + 1, infos)
    ELSE loadGpuInfosFrom_SkipFailed(lister, i + 1, Append(infos, lister.gpu[i + 1].info))

\* the loop of loadGpuInfos from index i on
RECURSIVE loadGpuInfosFrom(_, _, _)
loadGpuInfosFrom(lister, i, infos) ==
    IF i >= lister.count THEN [nil |-> FALSE, infos |-> infos, err |-> "nil"]
    ELSE IF lister.gpu[i + 1].err # "nil"
    THEN [nil |-> TRUE, infos |-> <<>>,
          err |-> "failed to get GPU info for device " \o ToString(i) \o ": " \o lister.gpu[i + 1].err]
    ELSE loadGpuInfosFrom(lister, i + 1, Append(infos, lister.gpu[i + 1].info))

loadGpuInfos(lister) == loadGpuInfosFrom(lister, 0, <<>>)

\* the label names of gpu_info
gpuInfoLabelNames ==
    <<"UUID", "pci_bus_id", "name", "brand", "serial", "board_id", "vbios_version",
      "oem_inforom_version", "ecc_inforom_version", "power_inforom_version",
      "inforom_image_version", "chassis_serial_number", "slot_number", "tray_index",
      "host_id", "peer_type", "module_id", "gpu_fabric_guid">>

\* the label values of the gpu_info series of a device, as initGpuInfoWithCache
\* passes them
gpuInfoLabels(info) ==
    <<info.UUID, info.PciBusId, info.Name, info.Brand, info.Serial, info.BoardId,
      info.VbiosVersion, info.OemInforomVersion, info.EccInforomVersion,
      info.PowerInforomVersion, info.InforomImageVersion, info.ChassisSerialNumber,
      info.SlotNumber, info.TrayIndex, info.HostId, info.PeerType, info.ModuleId,
      info.GpuFabricGuid>>

\* WithLabelValues(...).Set(value) on a gauge vector
GaugeSet(series, labels, value) ==
    IF labels \in DOMAIN series THEN [series EXCEPT ![labels] = value]
    ELSE (labels :> value) @@ series

\* a gpu_info that keys its series by the name of the device only
RECURSIVE initGpuInfoWithCache_KeyByName(_, _, _)
initGpuInfoWithCache_KeyByName(series, infos, i) ==
    IF i > Len(infos) THEN series
    ELSE initGpuInfoWithCache_KeyByName(GaugeSet(series, <<infos[i].Name>>, 1), infos, i + 1)

\* the loop of initGpuInfoWithCache from the i-th entry on
RECURSIVE initGpuInfoWithCache(_, _, _)
initGpuInfoWithCache(series, infos, i) ==
    IF i > Len(infos) THEN series
    ELSE initGpuInfoWithCache(GaugeSet(series, gpuInfoLabels(infos[i]), 1), infos, i + 1)

\* the metrics startCollectors registers
collectorMetrics ==
    {"fabric_health", "fabric_state", "fabric_status", "fabric_health_summary",
     "fabric_incorrect_config", "nvlink_errors", "clock_event_durations"}

NotStarted ==
    [pc |-> "none", nil |-> TRUE, infos |-> <<>>, err |-> "nil", registered |-> {},
     gpuInfo |-> <<>>, exporterInfo |-> <<>>, polling |-> FALSE,
     createRet |-> "NONE", regRets |-> <<>>, attempts |-> <<>>, subscribed |-> {},
     warnings |-> 0, eventLoop |-> FALSE, http |-> FALSE, calls |-> <<>>]

RunIdle == rnEnv = NoLister /\ rnSt = NotStarted

\* Run with the error of a call, wrapped
RunFailed(st, call, prefix, err) ==
    [st EXCEPT !.pc = "returned", !.err = prefix \o ": " \o err, !.calls = Append(@, call)]

\* main calls Run with the devices it found
RunCall ==
    /\ rnSt.pc = "none"
    /\ \E n \in 0..MaxRunDevices : \E lister \in Listers(n) : rnEnv' = lister
    /\ rnSt' = [rnSt EXCEPT !.pc = "loadGpuInfos"]

RunLoadGpuInfos ==
    /\ rnSt.pc = "loadGpuInfos"
    /\ LET r == loadGpuInfos(rnEnv) IN
       rnSt' = IF r.err # "nil"
               THEN RunFailed(rnSt, "loadGpuInfos", "failed to preload gpu info", r.err)
               ELSE [rnSt EXCEPT !.pc = "initExporterInfo", !.nil = r.nil, !.infos = r.infos,
                                 !.calls = Append(@, "loadGpuInfos")]
    /\ UNCHANGED rnEnv

RunInitExporterInfo ==
    /\ rnSt.pc = "initExporterInfo"
    /\ \E err \in {"nil", "failed to get driver version"} :
         rnSt' = IF err # "nil"
                 THEN RunFailed(rnSt, "initExporterInfo", "failed to initialize exporter metrics", err)
                 ELSE [rnSt EXCEPT !.pc = "initGpuInfoWithCache",
                                   !.exporterInfo = GaugeSet(@, <<"version-commit">>, 1),
                                   !.registered = @ \cup {"exporter_info"},
                                   !.calls = Append(@, "initExporterInfo")]
    /\ UNCHANGED rnEnv

RunInitGpuInfoWithCache ==
    /\ rnSt.pc = "initGpuInfoWithCache"
    /\ rnSt' = [rnSt EXCEPT !.pc = "startCollectors",
                            !.gpuInfo = initGpuInfoWithCache(@, rnSt.infos, 1),
                            !.registered = @ \cup {"gpu_info"},
                            !.calls = Append(@, "initGpuInfoWithCache")]
    /\ UNCHANGED rnEnv

RunStartCollectors ==
    /\ rnSt.pc = "startCollectors"
    /\ rnSt' = [rnSt EXCEPT !.pc = "startXidEventCollector",
                            !.registered = @ \cup collectorMetrics,
                            !.polling = TRUE,
                            !.calls = Append(@, "startCollectors")]
    /\ UNCHANGED rnEnv

RunStartXidEventCollector ==
    /\ rnSt.pc = "startXidEventCollector"
    /\ \E createRet \in NvmlReturns, regRets \in [1..rnEnv.count -> NvmlReturns] :
         LET r == startXidEventCollector(createRet, regRets)
             st == [rnSt EXCEPT !.registered = @ \cup {"xid_errors_total"},
                                !.createRet = createRet, !.regRets = regRets,
                                !.attempts = r.attempts, !.subscribed = r.subscribed,
                                !.warnings = r.warnings, !.eventLoop = r.loop]
         IN  rnSt' = IF r.err # "nil"
                     THEN RunFailed(st, "startXidEventCollector",
                                    "failed to start xid event collector", r.err)
                     ELSE [st EXCEPT !.pc = "ListenAndServe",
                                     !.calls = Append(@, "startXidEventCollector")]
    /\ UNCHANGED rnEnv

\* logDeviceList, http.Handle and ListenAndServe, which blocks while the
\* server runs and returns when it cannot start
RunListenAndServe ==
    /\ rnSt.pc = "ListenAndServe"
    /\ \E err \in {"nil", "address already in use"} :
         rnSt' = IF err # "nil"
                 THEN RunFailed(rnSt, "ListenAndServe", "failed to start server", err)
                 ELSE [rnSt EXCEPT !.pc = "serving", !.http = TRUE,
                                   !.calls = Append(@, "ListenAndServe")]
    /\ UNCHANGED rnEnv

RunNext ==
    \/ RunCall
    \/ RunLoadGpuInfos
    \/ RunInitExporterInfo
    \/ RunInitGpuInfoWithCache
    \/ RunStartCollectors
    \/ RunStartXidEventCollector
    \/ RunListenAndServe

(***************************************************************************)
(* The two goroutines together: the polling goroutine of startCollectors   *)
(* and the event goroutine of startXidEventCollector, every step of one    *)
(* interleaved with every step of the other.  The devices are healthy; the *)
(* run is cut after MaxJointTicks intervals and MaxJointWaits waits.       *)
(***************************************************************************)
MaxJointTicks == 1
MaxJointWaits == 1

LoopsInit ==
    /\ SchedInit
    /\ scFaults = [d \in 1..NumSchedDevices |-> "none"]
    /\ XidIdle

\* a step of startCollectors, its goroutine or its ticker
LoopsPoll == SchedNext /\ scTicker'.elapsed <= MaxJointTicks /\ UNCHANGED xeVars

\* what the wait returns while both goroutines run: a timeout, an error, a
\* critical Xid event of the first device, an event of another class
JointWaitResults ==
    { [ret |-> "ERROR_TIMEOUT", event |-> NoEvent], [ret |-> "ERROR_UNKNOWN", event |-> NoEvent],
      [ret |-> "SUCCESS", event |-> [NoEvent EXCEPT !.EventType = {"XidCriticalError"}, !.EventData = 79]],
      [ret |-> "SUCCESS", event |-> [NoEvent EXCEPT !.EventType = {"SingleBitEccError"}]] }

LoopsWait == XidWaitOf(JointWaitResults)

\* a step of startXidEventCollector or its goroutine
LoopsEvent == (XidStart \/ LoopsWait) /\ xeHist'.waits <= MaxJointWaits /\ UNCHANGED scVars

LoopsNext == LoopsPoll \/ LoopsEvent

(***************************************************************************)
(* The clock event collector with its rate-limited warning.  ckSt is the   *)
(* clockEventCollector (iterations, logCounter) with the gauge it sets and *)
(* the warnings it has logged; ckEnv is the per-request status that the    *)
(* device returns for each clock event field, the same in every pass;      *)
(* ckHist keeps, for every key of logCounter that has occurred, how many   *)
(* occurrences were logged and how many were suppressed since the last     *)
(* logged one.                                                             *)
(***************************************************************************)
LogEvery == 60
ResetEvery == 1440
MaxClockPasses == 2900
NumClockFields == 2

AllClockEventReasonFields ==
    <<"sw_power_capping", "sync_boost", "sw_thermal_slowdown", "hw_thermal_slowdown",
      "hw_power_braking">>

clockEventReasonFields == SubSeq(AllClockEventReasonFields, 1, min(NumClockFields, 5))

newClockEventCollector == [iterations |-> 0, logCounter |-> <<>>, samples |-> <<>>, warnings |-> <<>>]

ClockKey(reason, uuid, ret) == reason \o "|" \o uuid \o "|" \o ret

\* a limiter that lets the 60th occurrence through, not the first
shouldLogClockEventError_AfterSixty(st, reason, uuid, ret) ==
    LET key   == ClockKey(reason, uuid, ret)
        count == IF key \in DOMAIN st.logCounter THEN st.logCounter[key] ELSE 0
    IN  [st  |-> [st EXCEPT !.logCounter = (key :> count + 1) @@ @],
         log |-> (count + 1) % LogEvery = 0]

\* shouldLogClockEventError: the collector after the call, and the answer
shouldLogClockEventError(st, reason, uuid, ret) ==
    LET key   == ClockKey(reason, uuid, ret)
        count == IF key \in DOMAIN st.logCounter THEN st.logCounter[key] ELSE 0
    IN  [st  |-> [st EXCEPT !.logCounter = (key :> count + 1) @@ @],
         log |-> count % LogEvery = 0]

\* the body of the field loop for one field of the device; the duration
\* read in a pass is told apart from the others by the number of the pass
clockField(st, reason, uuid, ret) ==
    IF ret # "SUCCESS"
    THEN IF ret # "ERROR_NOT_SUPPORTED"
         THEN LET r == shouldLogClockEventError(st, reason, uuid, ret) IN
              IF r.log
              THEN [r.st EXCEPT !.warnings = Incremented(@, ClockKey(reason, uuid, ret))]
              ELSE r.st
         ELSE st
    ELSE [st EXCEPT !.samples = GaugeSet(@, <<uuid, reason>>, st.iterations)]

RECURSIVE clockFields(_, _, _, _)
clockFields(st, k, uuid, rets) ==
    IF k > Len(clockEventReasonFields) THEN st
    ELSE clockFields(clockField(st, clockEventReasonFields[k], uuid, rets[k]), k + 1, uuid, rets)

\* the head of collectClockEventReasons: the pass counter and the reset
clockIteration(st) ==
    IF (st.iterations + 1) % ResetEvery = 0
    THEN [st EXCEPT !.iterations = @ + 1, !.logCounter = <<>>]
    ELSE [st EXCEPT !.iterations = @ + 1]

\* collectClockEventReasons of the collector for a list of one device that
\* answers its UUID, its PCI info and the batch
clockPass(st, rets) == clockFields(clockIteration(st), 1, Uuid(0), rets)

ClockReturns == {"SUCCESS", "ERROR_NOT_SUPPORTED", "ERROR_UNKNOWN"}
ClockEnvs == [1..Len(clockEventReasonFields) -> ClockReturns]
NoClockEnv == <<>>

\* the history after a pass: one more logged occurrence, or one more
\* suppressed one, for every key that occurred in the pass
ClockHistory(hist, before, after, rets) ==
    LET keys == {ClockKey(clockEventReasonFields[k], Uuid(0), rets[k]) :
                    k \in {j \in 1..Len(rets) : rets[j] \notin {"SUCCESS", "ERROR_NOT_SUPPORTED"}}}
        old(key) == IF key \in DOMAIN hist THEN hist[key] ELSE [logged |-> 0, suppressed |-> 0]
        warned(key) == (IF key \in DOMAIN after.warnings THEN after.warnings[key] ELSE 0)
                       > (IF key \in DOMAIN before.warnings THEN before.warnings[key] ELSE 0)
    IN  [key \in DOMAIN hist \cup keys |->
            IF key \notin keys THEN hist[key]
            ELSE IF warned(key) THEN [logged |-> old(key).logged + 1, suppressed |-> 0]
            ELSE [logged |-> old(key).logged, suppressed |-> old(key).suppressed + 1]]

ClockIdle == ckEnv = NoClockEnv /\ ckSt = newClockEventCollector /\ ckHist = <<>>

ClockInit == ckEnv \in ClockEnvs /\ ckSt = newClockEventCollector /\ ckHist = <<>>

\* one pass of the polling goroutine through the clock event collector
ClockPass ==
    /\ ckEnv # NoClockEnv
    /\ ckSt.iterations < MaxClockPasses
    /\ ckSt' = clockPass(ckSt, ckEnv)
    /\ ckHist' = ClockHistory(ckHist, ckSt, ckSt', ckEnv)
    /\ UNCHANGED ckEnv

(***************************************************************************)
(* The gauge vectors across the passes of one process.  The vectors are    *)
(* package variables: a pass finds in them the series the earlier passes   *)
(* left, and the collectors reach them through WithLabelValues(...).Set    *)
(* only.  One device is in the list; a pass is collectFabricHealth and     *)
(* then collectNVLinkErrors.                                               *)
(***************************************************************************)
MaxGaugePasses == 3

HexDigits == <<"0", "1", "2", "3", "4", "5", "6", "7", "8", "9",
               "a", "b", "c", "d", "e", "f">>

\* fmt's %02x of a byte
Hex02(b) == HexDigits[(b \div 16) + 1] \o HexDigits[(b % 16) + 1]

\* uuidBytesToString: the 16 bytes in hexadecimal, grouped 4-2-2-2-6
uuidBytesToString(uuid) ==
    Hex02(uuid[1]) \o Hex02(uuid[2]) \o Hex02(uuid[3]) \o Hex02(uuid[4]) \o "-"
    \o Hex02(uuid[5]) \o Hex02(uuid[6]) \o "-"
    \o Hex02(uuid[7]) \o Hex02(uuid[8]) \o "-"
    \o Hex02(uuid[9]) \o Hex02(uuid[10]) \o "-"
    \o Hex02(uuid[11]) \o Hex02(uuid[12]) \o Hex02(uuid[13]) \o Hex02(uuid[14])
    \o Hex02(uuid[15]) \o Hex02(uuid[16])

\* the label values uuid, pci_bus_id, clique_id, cluster_uuid of a fabric series
fabricLabels(env) ==
    <<Uuid(1), "00000000:01:00.0", ToString(env.CliqueId), uuidBytesToString(env.ClusterUuid)>>

\* a fabric collector that clears the vectors before it writes
collectFabricHealthInto_ResetFirst(series, env) ==
    LET run == collectFabricHealth(env)
        l   == fabricLabels(env)
        s1  == GaugeSet(<<>>, <<"fabric_state">> \o l, run.state)
        s2  == GaugeSet(s1, <<"fabric_status">> \o l, run.status)
        s3  == GaugeSet(s2, <<"fabric_health">> \o l \o <<"degraded_bandwidth">>,
                        run.health.degraded_bandwidth)
        s4  == GaugeSet(s3, <<"fabric_health">> \o l \o <<"route_recovery">>,
                        run.health.route_recovery)
        s5  == GaugeSet(s4, <<"fabric_health">> \o l \o <<"route_unhealthy">>,
                        run.health.route_unhealthy)
        s6  == GaugeSet(s5, <<"fabric_health">> \o l \o <<"access_timeout_recovery">>,
                        run.health.access_timeout_recovery)
        s7  == GaugeSet(s6, <<"fabric_incorrect_configuration">> \o l, run.incorrectConfig)
    IN  IF ~run.written THEN series
        ELSE GaugeSet(s7, <<"fabric_health_summary">> \o l, run.summary)

\* collectFabricHealth for a device list that holds one device, writing into
\* the gauge vectors as earlier passes left them: eight Set calls under the
\* labels of this pass
collectFabricHealthInto(series, env) ==
    LET run == collectFabricHealth(env)
        l   == fabricLabels(env)
        s1  == GaugeSet(series, <<"fabric_state">> \o l, run.state)
        s2  == GaugeSet(s1, <<"fabric_status">> \o l, run.status)
        s3  == GaugeSet(s2, <<"fabric_health">> \o l \o <<"degraded_bandwidth">>,
                        run.health.degraded_bandwidth)
        s4  == GaugeSet(s3, <<"fabric_health">> \o l \o <<"route_recovery">>,
                        run.health.route_recovery)
        s5  == GaugeSet(s4, <<"fabric_health">> \o l \o <<"route_unhealthy">>,
                        run.health.route_unhealthy)
        s6  == GaugeSet(s5, <<"fabric_health">> \o l \o <<"access_timeout_recovery">>,
                        run.health.access_timeout_recovery)
        s7  == GaugeSet(s6, <<"fabric_incorrect_configuration">> \o l, run.incorrectConfig)
    IN  IF ~run.written THEN series
        ELSE GaugeSet(s7, <<"fabric_health_summary">> \o l, run.summary)

\* the cluster UUIDs and clique ids the fabric manager reports
ClusterUuids == {Tuple([i \in 1..16 |-> 0]),
                 <<171, 205, 1, 35, 69, 103, 137, 10, 0, 255, 16, 32, 48, 64, 80, 96>>}
CliqueIds == {1, 2}

\* a health mask with degraded bandwidth reported and a route being unhealthy
DegradedMask == <<1, 0, 0, 1, 1, 0, 0, 1>> \o ZeroBits(24)

\* the fabric answers of a pass: fabric info under every clique id and cluster
\* UUID, healthy or degraded, or a failure before anything is written
GaugeFabricEnvs ==
    {[uuidRet |-> e.uuidRet, pciRet |-> e.pciRet, fabricRet |-> e.fabricRet,
      State |-> e.State, Status |-> e.Status, HealthMask |-> e.HealthMask,
      CliqueId |-> c, ClusterUuid |-> u] :
        e \in {DefaultFabricEnv,
               [DefaultFabricEnv EXCEPT !.State = 3, !.HealthMask = DegradedMask],
               [DefaultFabricEnv EXCEPT !.fabricRet = "ERROR_NOT_SUPPORTED"]},
        c \in CliqueIds, u \in ClusterUuids}

AllEnabled == [DefaultEnv EXCEPT !.linkBuild = [l \in Links |-> Enabled],
                                 !.linkRead = [l \in Links |-> Enabled]]

\* the NVLink answers of a pass: every link active; the device skipped; the
\* batch failed; one link inactive; the first field of one link answered with
\* another status or as a double
GaugeNvEnvs ==
    {AllEnabled,
     [AllEnabled EXCEPT !.uuidRet = "ERROR_UNKNOWN"],
     [AllEnabled EXCEPT !.batchRet = "ERROR_UNKNOWN"]}
    \cup {[AllEnabled EXCEPT !.linkBuild[l] = Disabled, !.linkRead[l] = Disabled] : l \in Links}
    \cup {[AllEnabled EXCEPT !.odd = [fieldId |-> AllFields[1].fieldId, link |-> l,
                                      ret |-> o.ret, type |-> o.type]] :
            l \in Links,
            o \in {[ret |-> "ERROR_NOT_SUPPORTED", type |-> "UNSIGNED_LONG_LONG"],
                   [ret |-> "ERROR_UNKNOWN", type |-> "UNSIGNED_LONG_LONG"],
                   [ret |-> "SUCCESS", type |-> "DOUBLE"]}}

\* a pass differs from the undisturbed one in the answers to one collector
GaugeEnvs ==
    {[fabric |-> fe, nvlink |-> AllEnabled] : fe \in GaugeFabricEnvs}
    \cup {[fabric |-> CHOOSE fe \in GaugeFabricEnvs :
                         fe.fabricRet = "SUCCESS" /\ fe.State = 0 /\ fe.CliqueId = 1
                         /\ fe.ClusterUuid[1] = 0,
            nvlink |-> ne] : ne \in GaugeNvEnvs}

NoGaugeEnv == <<>>

GaugeIdle == gsPass = 0 /\ gsEnv = NoGaugeEnv /\ gsReg = [fabric |-> <<>>, nvlink |-> <<>>]

\* one pass of the goroutine of startCollectors
GaugePass ==
    /\ gsPass < MaxGaugePasses
    /\ \E env \in GaugeEnvs :
          /\ gsEnv' = env
          /\ gsReg' = [fabric |-> collectFabricHealthInto(gsReg.fabric, env.fabric),
                       nvlink |-> collectNVLinkErrorsInto(gsReg.nvlink, env.nvlink).samples]
    /\ gsPass' = gsPass + 1

(***************************************************************************)
(* Specifications.  Each one runs one component and holds the others idle. *)
(***************************************************************************)

SpecCodecInit == CodecInit /\ NvIdle /\ FhIdle /\ TpIdle /\ NicIdle /\ AfIdle /\ SchedIdle /\ XidIdle /\ RunIdle /\ ClockIdle /\ GaugeIdle
SpecCodecNext == CodecNext /\ UNCHANGED <<nvVars, fhVars, tpVars, nicVars, afVars, scVars, xeVars, rnVars, ckVars, gsVars>>
SpecCodec == SpecCodecInit /\ [][SpecCodecNext]_vars

SpecNvlinkInit == CodecIdle /\ NvIdle /\ FhIdle /\ TpIdle /\ NicIdle /\ AfIdle /\ SchedIdle /\ XidIdle /\ RunIdle /\ ClockIdle /\ GaugeIdle
SpecNvlinkNext == NvCollect /\ UNCHANGED <<codecVars, fhVars, tpVars, nicVars, afVars, scVars, xeVars, rnVars, ckVars, gsVars>>
SpecNvlink == SpecNvlinkInit /\ [][SpecNvlinkNext]_vars

SpecFabricInit == CodecIdle /\ NvIdle /\ FhIdle /\ TpIdle /\ NicIdle /\ AfIdle /\ SchedIdle /\ XidIdle /\ RunIdle /\ ClockIdle /\ GaugeIdle
SpecFabricNext == FhCollect /\ UNCHANGED <<codecVars, nvVars, tpVars, nicVars, afVars, scVars, xeVars, rnVars, ckVars, gsVars>>
SpecFabric == SpecFabricInit /\ [][SpecFabricNext]_vars

SpecTopoInit == CodecIdle /\ NvIdle /\ FhIdle /\ TpIdle /\ NicIdle /\ AfIdle /\ SchedIdle /\ XidIdle /\ RunIdle /\ ClockIdle /\ GaugeIdle
SpecTopoNext == TopoNext /\ UNCHANGED <<codecVars, nvVars, fhVars, nicVars, afVars, scVars, xeVars, rnVars, ckVars, gsVars>>
SpecTopo == SpecTopoInit /\ [][SpecTopoNext]_vars

SpecNicInit == CodecIdle /\ NvIdle /\ FhIdle /\ TpIdle /\ NicIdle /\ AfIdle /\ SchedIdle /\ XidIdle /\ RunIdle /\ ClockIdle /\ GaugeIdle
SpecNicNext == NicCollect /\ UNCHANGED <<codecVars, nvVars, fhVars, tpVars, afVars, scVars, xeVars, rnVars, ckVars, gsVars>>
SpecNic == SpecNicInit /\ [][SpecNicNext]_vars

SpecAffinityInit == CodecIdle /\ NvIdle /\ FhIdle /\ TpIdle /\ NicIdle /\ AfInit /\ SchedIdle /\ XidIdle /\ RunIdle /\ ClockIdle /\ GaugeIdle
SpecAffinityNext == AfFormat /\ UNCHANGED <<codecVars, nvVars, fhVars, tpVars, nicVars, scVars, xeVars, rnVars, ckVars, gsVars>>
SpecAffinity == SpecAffinityInit /\ [][SpecAffinityNext]_vars

SpecSchedInit == CodecIdle /\ NvIdle /\ FhIdle /\ TpIdle /\ NicIdle /\ AfIdle /\ SchedInit /\ XidIdle /\ RunIdle /\ ClockIdle /\ GaugeIdle
SpecSchedNext == SchedNext /\ UNCHANGED <<codecVars, nvVars, fhVars, tpVars, nicVars, afVars, xeVars, rnVars, ckVars, gsVars>>
SpecSched == SpecSchedInit /\ [][SpecSchedNext]_vars

SpecXidInit == CodecIdle /\ NvIdle /\ FhIdle /\ TpIdle /\ NicIdle /\ AfIdle /\ SchedIdle /\ XidIdle /\ RunIdle /\ ClockIdle /\ GaugeIdle
SpecXidNext == XidNext /\ UNCHANGED <<codecVars, nvVars, fhVars, tpVars, nicVars, afVars, scVars, rnVars, ckVars, gsVars>>
SpecXid == SpecXidInit /\ [][SpecXidNext]_vars

SpecRunInit == CodecIdle /\ NvIdle /\ FhIdle /\ TpIdle /\ NicIdle /\ AfIdle /\ SchedIdle /\ XidIdle /\ RunIdle /\ ClockIdle /\ GaugeIdle
SpecRunNext == RunNext /\ UNCHANGED <<codecVars, nvVars, fhVars, tpVars, nicVars, afVars, scVars, xeVars, ckVars, gsVars>>
SpecRun == SpecRunInit /\ [][SpecRunNext]_vars

SpecClockInit == CodecIdle /\ NvIdle /\ FhIdle /\ TpIdle /\ NicIdle /\ AfIdle /\ SchedIdle /\ XidIdle /\ RunIdle /\ ClockInit /\ GaugeIdle
SpecClockNext == ClockPass /\ UNCHANGED <<codecVars, nvVars, fhVars, tpVars, nicVars, afVars, scVars, xeVars, rnVars, gsVars>>
SpecClock == SpecClockInit /\ [][SpecClockNext]_vars

SpecGaugesInit == CodecIdle /\ NvIdle /\ FhIdle /\ TpIdle /\ NicIdle /\ AfIdle /\ SchedIdle /\ XidIdle /\ RunIdle /\ ClockIdle /\ GaugeIdle
SpecGaugesNext == GaugePass /\ UNCHANGED <<codecVars, nvVars, fhVars, tpVars, nicVars, afVars, scVars, xeVars, rnVars, ckVars>>
SpecGauges == SpecGaugesInit /\ [][SpecGaugesNext]_vars

SpecLoopsInit == CodecIdle /\ NvIdle /\ FhIdle /\ TpIdle /\ NicIdle /\ AfIdle /\ RunIdle /\ ClockIdle /\ GaugeIdle /\ LoopsInit
SpecLoopsNext == LoopsNext /\ UNCHANGED <<codecVars, nvVars, fhVars, tpVars, nicVars, afVars, rnVars, ckVars, gsVars>>
SpecLoops == SpecLoopsInit /\ [][SpecLoopsNext]_vars

(***************************************************************************)
(* Claims about the codec                                                  *)
(***************************************************************************)
Pow10Small(n) == IF n = 0 THEN 1 ELSE 10

\* the exponent and mantissa sub-fields, read off the bytes of the buffer
RawExponent == cFv.Value[1]
RawMantissa == cFv.Value[2] % 16

\* C1: for every raw unsigned value that decodes, decodeBER returns
\* mantissa * 10^(-exponent) with exponent = bits 0-7 and mantissa = bits 8-11
\* of the raw value, whatever the bits from 12 upward are; mantissa 0 gives
\* exactly 0; (0,0) gives 0, (5,2) gives 0.05 and (15,0) gives 15.
C1_BerIsMantissaTimesPow10 ==
    (cStage = "decoded" /\ ~cBer.err) =>
        /\ cBer.val.kind = "dec"
        /\ (RawMantissa = 0) => (cBer.val.mant = 0 /\ cBer.val.exp10 = 0)
        /\ (RawMantissa # 0) =>
              /\ RawExponent - cBer.val.exp10 \in {0, 1}
              /\ cBer.val.mant * Pow10Small(RawExponent - cBer.val.exp10) = RawMantissa
        /\ (RawMantissa = 5 /\ RawExponent = 2) => (cBer.val.mant = 5 /\ cBer.val.exp10 = 2)
        /\ (RawMantissa = 15 /\ RawExponent = 0) => (cBer.val.mant = 15 /\ cBer.val.exp10 = 0)

\* a raw value with mantissa 5, exponent 2 and bits set above bit 11 was decoded
C1_Witness ==
    /\ cStage = "decoded"
    /\ ~cBer.err
    /\ RawMantissa = 5 /\ RawExponent = 2
    /\ cFv.Value[2] >= 16
    /\ cFv.Value[8] # 0
    /\ cBer.val.mant = 5

SupportedTags == {"SIGNED_INT", "UNSIGNED_INT", "UNSIGNED_LONG", "UNSIGNED_LONG_LONG", "DOUBLE"}
IntegerTags == {"SIGNED_INT", "UNSIGNED_INT", "UNSIGNED_LONG", "UNSIGNED_LONG_LONG"}

\* the decoded float64 is exactly the number that was encoded
ExactRoundTrip ==
    IF cOrig.tag = "DOUBLE"
    THEN cFloat.val = [kind |-> "double", bits |-> cOrig.bits]
    ELSE cFloat.val = [kind |-> "int", neg |-> cOrig.neg, mag |-> cOrig.bits \o <<0>>]

\* number of bits from the lowest to the highest set bit of the original
SignificantBits ==
    IF HighBit(cOrig.bits) = 0 THEN 0
    ELSE HighBit(cOrig.bits) + 1
         - LowZeroFrom(NotBits(cOrig.bits), 1)

\* C2 as stated: for each supported tag the round trip returns the original
\* value, exactly for every integer of the tag's range up to 2^64-1.
C2_Original_RoundTripExact ==
    (cStage = "decoded" /\ cOrig.tag \in SupportedTags) => (~cFloat.err /\ ExactRoundTrip)

\* C2 amended: the round trip is exact for every signed and unsigned 32-bit
\* integer, bit for bit for a double, and for an unsigned 64-bit value exactly
\* when it has at most 53 significant bits (so for every value up to 2^53).
C2_RoundTripExactWithin53Bits ==
    (cStage = "decoded" /\ cOrig.tag \in SupportedTags) =>
        /\ ~cFloat.err
        /\ cOrig.tag \in {"SIGNED_INT", "UNSIGNED_INT", "DOUBLE"} => ExactRoundTrip
        /\ cOrig.tag \in {"UNSIGNED_LONG", "UNSIGNED_LONG_LONG"} =>
              (ExactRoundTrip <=> SignificantBits <= 53)

\* a negative signed 32-bit value came back exactly
C2_Witness ==
    /\ cStage = "decoded"
    /\ cOrig.tag = "SIGNED_INT" /\ cOrig.neg
    /\ cOrig.pad = 255
    /\ cFloat.val.kind = "int" /\ cFloat.val.neg
    /\ cFloat.val.mag = cOrig.bits \o <<0>>

(***************************************************************************)
(* Claims about the request builder and the NVLink collector               *)
(***************************************************************************)
FieldName(fieldId) == AllFields[CHOOSE i \in 1..Len(AllFields) : AllFields[i].fieldId = fieldId].name
FieldIdOf(name) == AllFields[CHOOSE i \in 1..Len(AllFields) : AllFields[i].name = name].fieldId

\* the pass got as far as building the batch
NvBuilt == nvStage = "done" /\ nvEnv.uuidRet = "SUCCESS" /\ nvEnv.pciRet = "SUCCESS"

\* the pass got as far as reading the results of a successful batch
NvRead == NvBuilt /\ nvRun.queried /\ nvEnv.batchRet = "SUCCESS"

NumActive == Cardinality(ActiveAtBuild(nvEnv))
NumDescriptors == Len(nvlinkErrorFields) + Len(nvlinkBerFields) + Len(nvlinkFecFields)

\* C4: for N active links and M field descriptors the builder returns exactly
\* N x M requests and an index of exactly N x M keys; the index is injective,
\* every key (fieldId, link) maps to the request with that FieldId and
\* ScopeId, and every descriptor of every active link has a key.
C4_BuilderCompleteIndex ==
    NvBuilt =>
        /\ Len(nvRun.requests) = NumActive * NumDescriptors
        /\ Cardinality(DOMAIN nvRun.index) = NumActive * NumDescriptors
        /\ \A k \in DOMAIN nvRun.index : nvRun.index[k] \in 0..(Len(nvRun.requests) - 1)
        /\ \A k1, k2 \in DOMAIN nvRun.index : nvRun.index[k1] = nvRun.index[k2] => k1 = k2
        /\ \A k \in DOMAIN nvRun.index :
              /\ nvRun.requests[nvRun.index[k] + 1].FieldId = k[1]
              /\ nvRun.requests[nvRun.index[k] + 1].ScopeId = k[2]
        /\ \A l \in ActiveAtBuild(nvEnv) : \A f \in FieldIds : <<f, l>> \in DOMAIN nvRun.index

\* a batch was built for a device with at least two active links
C4_Witness ==
    /\ NvBuilt
    /\ NumActive >= 2
    /\ Len(nvRun.requests) = NumActive * NumDescriptors
    /\ NumDescriptors >= 4

\* C5: no request is built for a link whose state query fails or reports a
\* state other than enabled; with no active link the batch is empty and the
\* device is skipped: GetFieldValues is not called and no sample is written.
C5_InactiveLinksSkipped ==
    NvBuilt =>
        /\ \A i \in 1..Len(nvRun.requests) :
              /\ nvRun.requests[i].ScopeId \in Links
              /\ nvEnv.linkBuild[nvRun.requests[i].ScopeId].ret = "SUCCESS"
              /\ nvEnv.linkBuild[nvRun.requests[i].ScopeId].state = "FEATURE_ENABLED"
        /\ (\A l \in Links : nvEnv.linkBuild[l] # Enabled) =>
              /\ nvRun.requests = <<>>
              /\ ~nvRun.queried
              /\ DOMAIN nvRun.samples = {}

\* no link was active at build time (one state query failed) although a link
\* reports enabled afterwards: the device was skipped
C5_Witness ==
    /\ NvBuilt
    /\ \A l \in Links : nvEnv.linkBuild[l] # Enabled
    /\ \E l \in Links : nvEnv.linkBuild[l].ret # "SUCCESS"
    /\ \E l \in Links : nvEnv.linkRead[l] = Enabled
    /\ ~nvRun.queried
    /\ DOMAIN nvRun.samples = {}

\* C3: a result whose value type is outside the supported set makes
\* fieldValueToFloat64 and decodeBER return an error; the collector writes no
\* sample for that (link, field) and goes on with the other fields of the link.
C3_UnsupportedTypeSkipsSample ==
    NvRead =>
        \A i \in 1..Len(nvRun.values) :
            LET fv == nvRun.values[i] IN
            (fv.NvmlReturn = "SUCCESS" /\ fv.ValueType \notin SupportedTags) =>
                /\ fieldValueToFloat64(fv).err
                /\ decodeBER(fv).err
                /\ <<fv.ScopeId, FieldName(fv.FieldId)>> \notin DOMAIN nvRun.samples
                /\ linkActive(nvEnv.linkRead[fv.ScopeId], fv.ScopeId).active =>
                      \A f \in FieldIds \ {fv.FieldId} :
                          <<fv.ScopeId, FieldName(f)>> \in DOMAIN nvRun.samples

\* the first field of link 0 came back as an unsigned short: no sample for it,
\* and the next field of the same link has its sample
C3_Witness ==
    /\ NvRead
    /\ nvEnv.odd.type = "UNSIGNED_SHORT"
    /\ nvEnv.odd.fieldId = 206 /\ nvEnv.odd.link = 0
    /\ nvEnv.linkBuild[0] = Enabled /\ nvEnv.linkRead[0] = Enabled
    /\ <<0, "malformed_packet_errors">> \notin DOMAIN nvRun.samples
    /\ <<0, "buffer_overrun_errors">> \in DOMAIN nvRun.samples

\* C6 as stated: every sample written for (link, field) is decoded from the
\* result whose request carried that field id and that link as scope, for
\* every sequence of answers of the link-state query.
C6_SampleFromOwnRequest ==
    (nvStage = "done") =>
        \A k \in DOMAIN nvRun.samples : nvRun.samples[k].src = <<FieldIdOf(k[2]), k[1]>>

\* C7: a per-request status 'not supported', or a batch that returns 'not
\* supported', leaves no sample for that (link, error_type) and no warning.
C7_NotSupportedIsSilent ==
    /\ NvRead =>
          \A i \in 1..Len(nvRun.values) :
              LET fv == nvRun.values[i] IN
              (fv.NvmlReturn = "ERROR_NOT_SUPPORTED") =>
                  /\ <<fv.ScopeId, FieldName(fv.FieldId)>> \notin DOMAIN nvRun.samples
                  /\ \A e \in nvRun.log :
                        ~(e.level = "warn" /\ e.field = FieldName(fv.FieldId) /\ e.link = fv.ScopeId)
    /\ (NvBuilt /\ nvRun.queried /\ nvEnv.batchRet = "ERROR_NOT_SUPPORTED") =>
          /\ DOMAIN nvRun.samples = {}
          /\ nvRun.log = {}

\* a field of a link that is active throughout answered 'not supported' while
\* the other fields of the pass were sampled
C7_Witness ==
    /\ NvRead
    /\ nvEnv.odd.ret = "ERROR_NOT_SUPPORTED"
    /\ nvEnv.linkBuild[nvEnv.odd.link] = Enabled
    /\ nvEnv.linkRead[nvEnv.odd.link] = Enabled
    /\ <<nvEnv.odd.link, FieldName(nvEnv.odd.fieldId)>> \notin DOMAIN nvRun.samples
    /\ Cardinality(DOMAIN nvRun.samples) = NumDescriptors - 1
    /\ nvRun.log = {}

\* the result the read loop takes for a field of a link, and what its
\* decoder makes of it
ResultRead(field, link) == nvRun.values[indexLookup(nvRun.index, field.fieldId, link) + 1]
DecodeFails(field, fv) ==
    IF \E b \in 1..Len(nvlinkBerFields) : nvlinkBerFields[b].fieldId = field.fieldId
    THEN decodeBER(fv).err
    ELSE fieldValueToFloat64(fv).err

\* C27: when a pass has read the results, every field of an active link
\* whose own result came back with status success and whose decoding
\* fails has no sample and has a record in the log.
C27_DecodeFailureLoggedAndSkipped ==
    (nvStage = "done" /\ nvRun.queried /\ nvEnv.batchRet = "SUCCESS") =>
        \A link \in Links : \A k \in 1..Len(AllFields) :
            (/\ nvEnv.linkRead[link] = Enabled
             /\ <<AllFields[k].fieldId, link>> \in DOMAIN nvRun.index
             /\ ResultRead(AllFields[k], link).NvmlReturn = "SUCCESS"
             /\ DecodeFails(AllFields[k], ResultRead(AllFields[k], link)))
            => /\ <<link, AllFields[k].name>> \notin DOMAIN nvRun.samples
               /\ \E record \in nvRun.log :
                     record.field = AllFields[k].name /\ record.link = link

(***************************************************************************)
(* Claims about the fabric health decoder                                  *)
(***************************************************************************)
FhWritten == fhStage = "done" /\ fhRun.written

\* the cascade, over the sub-fields decoded during the pass
FhAllNotSupported ==
    /\ fhRun.fields.degradedBw = GPU_FABRIC_HEALTH_MASK_DEGRADED_BW_NOT_SUPPORTED
    /\ fhRun.fields.routeRecovery = GPU_FABRIC_HEALTH_MASK_ROUTE_RECOVERY_NOT_SUPPORTED
    /\ fhRun.fields.routeUnhealthy = GPU_FABRIC_HEALTH_MASK_ROUTE_UNHEALTHY_NOT_SUPPORTED
    /\ fhRun.fields.accessTimeoutRecovery = GPU_FABRIC_HEALTH_MASK_ACCESS_TIMEOUT_RECOVERY_NOT_SUPPORTED
    /\ fhRun.fields.incorrectConfig = GPU_FABRIC_HEALTH_MASK_INCORRECT_CONFIGURATION_NOT_SUPPORTED

FhAnyUnhealthy ==
    \/ fhRun.fields.routeRecovery = GPU_FABRIC_HEALTH_MASK_ROUTE_RECOVERY_TRUE
    \/ fhRun.fields.routeUnhealthy = GPU_FABRIC_HEALTH_MASK_ROUTE_UNHEALTHY_TRUE
    \/ fhRun.fields.accessTimeoutRecovery = GPU_FABRIC_HEALTH_MASK_ACCESS_TIMEOUT_RECOVERY_TRUE
    \/ fhRun.fields.incorrectConfig \notin
          {GPU_FABRIC_HEALTH_MASK_INCORRECT_CONFIGURATION_NOT_SUPPORTED,
           GPU_FABRIC_HEALTH_MASK_INCORRECT_CONFIGURATION_NONE}

FhDegraded == fhRun.fields.degradedBw = GPU_FABRIC_HEALTH_MASK_DEGRADED_BW_TRUE

\* C8: the summary is NotSupported exactly when all five sub-fields are their
\* not-supported sentinel; otherwise Unhealthy exactly when a route or
\* access-timeout flag is true or the configuration code is neither
\* not-supported nor none; otherwise LimitedCapacity exactly when
\* degraded-bandwidth is true; otherwise Healthy.  Degraded bandwidth together
\* with route-unhealthy gives Unhealthy.
C8_SummaryIsStrictCascade ==
    FhWritten =>
        /\ FhAllNotSupported => fhRun.summary = GPU_FABRIC_HEALTH_SUMMARY_NOT_SUPPORTED
        /\ (~FhAllNotSupported /\ FhAnyUnhealthy) =>
              fhRun.summary = GPU_FABRIC_HEALTH_SUMMARY_UNHEALTHY
        /\ (~FhAllNotSupported /\ ~FhAnyUnhealthy /\ FhDegraded) =>
              fhRun.summary = GPU_FABRIC_HEALTH_SUMMARY_LIMITED_CAPACITY
        /\ (~FhAllNotSupported /\ ~FhAnyUnhealthy /\ ~FhDegraded) =>
              fhRun.summary = GPU_FABRIC_HEALTH_SUMMARY_HEALTHY
        /\ (FhDegraded /\ fhRun.fields.routeUnhealthy = GPU_FABRIC_HEALTH_MASK_ROUTE_UNHEALTHY_TRUE) =>
              fhRun.summary = GPU_FABRIC_HEALTH_SUMMARY_UNHEALTHY

\* degraded bandwidth and route-unhealthy are both true: Unhealthy
C8_Witness ==
    /\ FhWritten
    /\ FhDegraded
    /\ fhRun.fields.routeUnhealthy = GPU_FABRIC_HEALTH_MASK_ROUTE_UNHEALTHY_TRUE
    /\ fhRun.fields.routeRecovery = GPU_FABRIC_HEALTH_MASK_ROUTE_RECOVERY_FALSE
    /\ fhRun.fields.incorrectConfig = GPU_FABRIC_HEALTH_MASK_INCORRECT_CONFIGURATION_NONE
    /\ fhRun.summary = GPU_FABRIC_HEALTH_SUMMARY_UNHEALTHY

\* bits 0-21 of the mask: the four flags and the configuration code
FhSubFieldBitsZero == \A i \in 1..22 : fhEnv.HealthMask[i] = 0

\* C9: the summary written for a mask is NotSupported if and only if bits 0-21
\* of the mask (the four 2-bit flags and the 14-bit configuration code) all
\* hold the not-supported sentinel, whatever bits 22-31 are.
C9_NotSupportedIffAllSentinel ==
    FhWritten =>
        (fhRun.summary = GPU_FABRIC_HEALTH_SUMMARY_NOT_SUPPORTED <=> FhSubFieldBitsZero)

\* every sub-field not supported while bits 22-31 are all set
C9_Witness ==
    /\ FhWritten
    /\ FhSubFieldBitsZero
    /\ \A i \in 23..32 : fhEnv.HealthMask[i] = 1
    /\ fhRun.summary = GPU_FABRIC_HEALTH_SUMMARY_NOT_SUPPORTED

\* C10 as stated: the fabric_health value written for a flag that is at its
\* not-supported sentinel differs from the value written for that flag when
\* it is false (healthy).
C10_NotSupportedNotReportedHealthy ==
    FhWritten =>
        /\ fhRun.fields.degradedBw = GPU_FABRIC_HEALTH_MASK_DEGRADED_BW_NOT_SUPPORTED =>
              fhRun.health.degraded_bandwidth #
                  healthGauge(GPU_FABRIC_HEALTH_MASK_DEGRADED_BW_FALSE)
        /\ fhRun.fields.routeRecovery = GPU_FABRIC_HEALTH_MASK_ROUTE_RECOVERY_NOT_SUPPORTED =>
              fhRun.health.route_recovery #
                  healthGauge(GPU_FABRIC_HEALTH_MASK_ROUTE_RECOVERY_FALSE)
        /\ fhRun.fields.routeUnhealthy = GPU_FABRIC_HEALTH_MASK_ROUTE_UNHEALTHY_NOT_SUPPORTED =>
              fhRun.health.route_unhealthy #
                  healthGauge(GPU_FABRIC_HEALTH_MASK_ROUTE_UNHEALTHY_FALSE)
        /\ fhRun.fields.accessTimeoutRecovery =
                  GPU_FABRIC_HEALTH_MASK_ACCESS_TIMEOUT_RECOVERY_NOT_SUPPORTED =>
              fhRun.health.access_timeout_recovery #
                  healthGauge(GPU_FABRIC_HEALTH_MASK_ACCESS_TIMEOUT_RECOVERY_FALSE)

(***************************************************************************)
(* Claims about the topology builder                                       *)
(***************************************************************************)
TopoBuilt == tpStage = "done"
TopoDevices == 0..(tpEnv.n - 1)
TopoHasRow(i) == \E row \in tpRun.gauge : row["UUID"] = Uuid(i)
TopoRow(i) == CHOOSE row \in tpRun.gauge : row["UUID"] = Uuid(i)
TopoHasEntry(i, j) == TopoHasRow(i) /\ j < Len(gpuLabelKeys)
TopoEntry(i, j) == TopoRow(i)[gpuLabelKeys[j + 1]]
LookupLabels(a, b) == {r[3] : r \in {x \in tpLook.results : x[1] = a /\ x[2] = b}}

\* C11 as stated: after a build that returned no error, every device i has
\* the self label at (i, i), and every pair of devices has entries (i, j)
\* and (j, i) that are equal.
C11_Original_EveryDeviceSymmetric ==
    (TopoBuilt /\ ~tpRun.err) =>
        \A i \in TopoDevices :
            /\ TopoHasEntry(i, i) /\ TopoEntry(i, i) = "X"
            /\ \A j \in TopoDevices :
                 TopoHasEntry(i, j) /\ TopoHasEntry(j, i) /\ TopoEntry(i, j) = TopoEntry(j, i)

\* C11 amended: among the devices that have a column (gpu0..gpu3) and whose
\* row was written, entry (i, i) is the self label "X" and entry (i, j)
\* equals entry (j, i), whatever the ancestor queries answer; and the label
\* lookup returns "X" for (i, i) and one and the same label for (i, j) and
\* (j, i) in whatever order and however often the pairs are asked.
C11_SymmetricWithinColumns ==
    /\ TopoBuilt =>
         \A i \in TopoDevices, j \in TopoDevices :
             (TopoHasEntry(i, j) /\ TopoHasEntry(j, i)) =>
                 /\ TopoEntry(i, j) = TopoEntry(j, i)
                 /\ (i = j => TopoEntry(i, j) = "X")
    /\ \A a \in 0..(tpLook.env.n - 1), b \in 0..(tpLook.env.n - 1) :
         /\ Cardinality(LookupLabels(a, b) \cup LookupLabels(b, a)) <= 1
         /\ (a = b => LookupLabels(a, b) \subseteq {"X"})

\* a build over four devices whose ancestor queries would answer differently
\* in the two directions of a pair
C11_Witness ==
    /\ TopoBuilt /\ ~tpRun.err /\ tpEnv.n = 4
    /\ tpEnv.anc[0].ret = "SUCCESS" /\ tpEnv.anc[1].ret # "SUCCESS"
    /\ TopoEntry(1, 0) = "PIX" /\ TopoEntry(0, 1) = "PIX" /\ TopoEntry(3, 3) = "X"

PcieLabels == {"SOC", "PIX", "PXB", "PHB", "NODE", "SYS", "UNKNOWN", "unknown"}

\* C12: after a build that returned no error there is an entry for every
\* ordered pair (i, j) of devices, and for i # j the entry is "NV<k>", k the
\* number of links of i whose remote end is j, whenever k > 0, and a PCIe
\* ancestor-distance label otherwise.
C12_NvLabelForLinkedPairs ==
    (TopoBuilt /\ ~tpRun.err) =>
        \A i \in TopoDevices, j \in TopoDevices :
            /\ TopoHasEntry(i, j)
            /\ i # j =>
                 IF getNVLinkConnection(tpEnv, i, j) # ""
                 THEN TopoEntry(i, j) = getNVLinkConnection(tpEnv, i, j)
                 ELSE TopoEntry(i, j) \in PcieLabels

RECURSIVE TotalQueries(_)
TotalQueries(queries) ==
    IF DOMAIN queries = {} THEN 0
    ELSE LET q == CHOOSE x \in DOMAIN queries : TRUE
         IN queries[q] + TotalQueries([x \in DOMAIN queries \ {q} |-> queries[x]])

QueriesFor(queries, a, b) ==
    (IF <<a, b>> \in DOMAIN queries THEN queries[<<a, b>>] ELSE 0)
    + (IF <<b, a>> \in DOMAIN queries THEN queries[<<b, a>>] ELSE 0)

AtMostOncePerPair(queries, n) ==
    \A a \in 0..(n - 1), b \in 0..(n - 1) :
        /\ a # b => QueriesFor(queries, a, b) <= 1
        /\ a = b => <<a, b>> \notin DOMAIN queries

\* C13: during one build the common-ancestor query is issued at most once
\* for each unordered pair {i, j}, however many lookups ask for the pair and
\* also when the first query failed; never for i = j; and for four devices
\* at most six times.  The same holds of lookups asked in any order.
C13_AncestorQueriedOncePerPair ==
    /\ AtMostOncePerPair(tpRun.queries, tpEnv.n)
    /\ tpEnv.n = 4 => TotalQueries(tpRun.queries) <= 6
    /\ AtMostOncePerPair(tpLook.st.queries, tpLook.env.n)

\* a complete build over four devices in which every query from device 0
\* failed: six queries, and the failed pairs were looked up from both sides
C13_Witness ==
    /\ TopoBuilt /\ ~tpRun.err /\ tpEnv.n = 4
    /\ tpEnv.anc[0].ret # "SUCCESS"
    /\ TopoEntry(0, 1) = "unknown" /\ TopoEntry(1, 0) = "unknown"
    /\ TotalQueries(tpRun.queries) = 6

(***************************************************************************)
(* Claims about NIC discovery                                              *)
(***************************************************************************)
NicDone == nicStage = "done"
NicDevices == 0..(nicEnv.n - 1)
\* link l of device i is enabled, ends at a NIC and names its bus id
ReachesNic(i, l) ==
    LET a == nicEnv.links[i][l]
    IN /\ a.stateRet = "SUCCESS" /\ a.state = "FEATURE_ENABLED"
       /\ a.typeRet = "SUCCESS" /\ a.remoteType = "NVLINK_DEVICE_TYPE_IBMNPU"
       /\ a.pciRet = "SUCCESS"
ReachedIds == {nicEnv.links[i][l].busId : <<i, l>> \in {x \in NicDevices \X (1..MaxLinks) : ReachesNic(x[1], x[2])}}
GpusOf(busId) == {i \in NicDevices : \E l \in 1..MaxLinks : ReachesNic(i, l) /\ nicEnv.links[i][l].busId = busId}
EntriesOf(busId) == {k \in 1..Len(nicRun) : nicRun[k].pciKey = pciBusIdToString(busId)}
\* the place of the first link that reaches the NIC, in scan order
FirstSeen(busId) ==
    CHOOSE g \in 0..(nicEnv.n * MaxLinks - 1) :
        /\ ReachesNic(g \div MaxLinks, (g % MaxLinks) + 1)
        /\ nicEnv.links[g \div MaxLinks][(g % MaxLinks) + 1].busId = busId
        /\ \A h \in 0..(g - 1) :
             ~(ReachesNic(h \div MaxLinks, (h % MaxLinks) + 1)
               /\ nicEnv.links[h \div MaxLinks][(h % MaxLinks) + 1].busId = busId)
SeenBefore(busId) == {b \in ReachedIds : FirstSeen(b) < FirstSeen(busId)}

\* C14 as stated: every NIC reached over an enabled link of the NIC class
\* has exactly one entry, with exactly the GPUs that have such a link to it.
C14_Original_EveryNicOnce ==
    NicDone =>
        /\ \A b \in ReachedIds :
             /\ Cardinality(EntriesOf(b)) = 1
             /\ \A k \in EntriesOf(b) : nicRun[k].connections = GpusOf(b)
        /\ \A k \in 1..Len(nicRun) : \E b \in ReachedIds : k \in EntriesOf(b)

\* C14 amended: the list holds the first six distinct NICs in scan order
\* (devices ascending, links ascending), each exactly once, at the place of
\* its discovery and under the label of that place, each with exactly the
\* GPUs that have an enabled NIC-class link to it; a NIC discovered after
\* six others has no entry.
C14_FirstSixNicsOnce ==
    NicDone =>
        /\ \A b \in ReachedIds :
             LET place == Cardinality(SeenBefore(b)) + 1
             IN IF place <= Len(nicLabelKeys)
                THEN /\ EntriesOf(b) = {place}
                     /\ nicRun[place].connections = GpusOf(b)
                     /\ nicRun[place].label = nicLabelKeys[place]
                ELSE EntriesOf(b) = {}
        /\ \A k \in 1..Len(nicRun) : \E b \in ReachedIds : k \in EntriesOf(b)

\* seven distinct NICs are reached, the first of them by two GPUs, and six
\* entries came back
C14_Witness ==
    /\ NicDone
    /\ Cardinality(ReachedIds) = 7
    /\ Len(nicRun) = 6
    /\ \E k \in 1..Len(nicRun) : Cardinality(nicRun[k].connections) >= 2

(***************************************************************************)
(* Claims about the affinity range string                                  *)
(***************************************************************************)
AfFormatted == afStage = "formatted"
\* the CPUs whose bit is set in the mask
SetBits(mask) ==
    {cpu \in 0..(Len(mask) * UintSize - 1) : mask[(cpu \div UintSize) + 1][(cpu % UintSize) + 1] = 1}
SetMin(S) == CHOOSE a \in S : \A c \in S : a <= c
\* the end of the maximal run of S that starts at a
RunEnd(S, a) == CHOOSE b \in S : b >= a /\ (\A c \in a..b : c \in S) /\ (b + 1) \notin S
\* the maximal runs of S ascending, "a-b" or "a", joined by commas
RECURSIVE RangeText(_)
RangeText(S) ==
    IF S = {} THEN ""
    ELSE LET a == SetMin(S)
             b == RunEnd(S, a)
             text == IF a = b THEN ToString(a) ELSE ToString(a) \o "-" \o ToString(b)
             rest == S \ (a..b)
         IN IF rest = {} THEN text ELSE text \o "," \o RangeText(rest)

\* C15 as stated: for every mask that was read, each formatter's string is
\* the range text of exactly the set bits, and the sentinel when no bit is
\* set; never the empty string.
C15_Original_ListsExactlySetBits ==
    (AfFormatted /\ afIn.ret = "SUCCESS") =>
        LET S == SetBits(afIn.mask)
        IN /\ afOut.current = (IF S = {} THEN "unknown" ELSE RangeText(S))
           /\ afOut.legacy = (IF S = {} THEN "N/A" ELSE RangeText(S))

\* C15 amended: getCpuAffinityString lists exactly the set bits below the
\* CPU count it was given, formatCpuAffinity exactly the set bits; maximal
\* runs "a-b", singletons "a", ascending, comma-joined; with no such bit
\* (or a failed query) the string is the sentinel "unknown", respectively
\* "N/A", and never empty.
C15_ListsSetBitsBelowCpuCount ==
    AfFormatted =>
        LET S == SetBits(afIn.mask)
            T == {cpu \in S : cpu < afIn.numCPUs}
        IN /\ afOut.current = (IF afIn.ret # "SUCCESS" \/ T = {} THEN "unknown" ELSE RangeText(T))
           /\ afOut.legacy = (IF S = {} THEN "N/A" ELSE RangeText(S))
           /\ afOut.current # "" /\ afOut.legacy # ""

\* the mask {0,1,2,5,7,8} read with a CPU count above 8
C15_Witness ==
    /\ AfFormatted /\ afIn.ret = "SUCCESS"
    /\ SetBits(afIn.mask) = {0, 1, 2, 5, 7, 8}
    /\ afIn.numCPUs > 8
    /\ afOut.current = "0-2,5,7-8" /\ afOut.legacy = "0-2,5,7-8"

(***************************************************************************)
(* Claims about startCollectors and the passes                             *)
(***************************************************************************)
PassComplete(k) == Len(scPasses[k].ran) = 3
PassInOrder(k) ==
    \A c \in 1..Len(scPasses[k].ran) :
        scPasses[k].ran[c].collector = <<"fabric", "nvlink", "clock">>[c]
TickPasses == Cardinality({k \in 1..Len(scPasses) : scPasses[k].kind = "tick"})
\* the passes are one initial pass and then tick-driven passes, each begun
\* after the one before it has run all its collectors, each in the fixed order
PassesWellFormed ==
    /\ \A k \in 1..Len(scPasses) :
         /\ scPasses[k].kind = (IF k = 1 THEN "initial" ELSE "tick")
         /\ PassInOrder(k)
         /\ k < Len(scPasses) => PassComplete(k)
    /\ scPc = "wait" => (Len(scPasses) >= 1 /\ PassComplete(Len(scPasses)))
    /\ scTicker.pending > 0 => Len(scPasses) >= 1

\* C16 as stated: the initial pass has run in full when startCollectors
\* has returned and before any tick-driven pass; every pass runs fabric
\* health, NVLink errors, clock events in this order; and every tick that
\* has fired has started a pass or is about to.
C16_Original_InitialPassBeforeReturn ==
    /\ scMain = "returned" => (Len(scPasses) >= 1 /\ PassComplete(1))
    /\ PassesWellFormed
    /\ TickPasses + scTicker.pending = scTicker.elapsed

\* C16 amended: the collection goroutine runs one full pass before any
\* tick-driven pass begins (startCollectors does not wait for it); every
\* pass, initial or tick-driven, runs fabric health, NVLink errors, clock
\* events in this order; and one pass is begun for every tick received.
C16_InitialPassThenOnePassPerTickReceived ==
    /\ PassesWellFormed
    /\ TickPasses = scTicker.elapsed - scTicker.pending - scTicker.dropped

\* startCollectors returned before the goroutine began the initial pass,
\* and a tick-driven pass has run in full after it
C16_Witness ==
    /\ scMain = "returned"
    /\ Len(scPasses) >= 2
    /\ scPasses[1].returned /\ PassComplete(1)
    /\ scPasses[2].kind = "tick" /\ PassComplete(2)

\* C17: in every pass each collector that ran went through the whole
\* device list, and wrote the samples of every device that has no fault,
\* whatever fault another device has; and a pass that is over has run all
\* three collectors.
C17_FailureDoesNotStopThePass ==
    \A k \in 1..Len(scPasses) :
        /\ \A c \in 1..Len(scPasses[k].ran) :
             /\ Len(scPasses[k].ran[c].devices) = Len(scFaults)
             /\ \A d \in 1..Len(scFaults) :
                  scFaults[d] = "none" => scPasses[k].ran[c].devices[d].written
        /\ (k < Len(scPasses) \/ scPc = "wait") => PassComplete(k)

\* the first device fails its UUID query: nothing is written for it, a
\* warning is logged, the second device is written by all three collectors
C17_Witness ==
    /\ Len(scPasses) >= 1 /\ PassComplete(1)
    /\ scFaults[1] = "uuid"
    /\ \A c \in 1..3 :
         /\ ~scPasses[1].ran[c].devices[1].written
         /\ scPasses[1].ran[c].devices[1].warned
         /\ scPasses[1].ran[c].devices[2].written

\* C18 as stated: ticks are neither suppressed nor coalesced, so once the
\* goroutine waits for the next tick with none pending, it has begun as
\* many tick-driven passes as intervals have elapsed.
C18_Original_PassPerInterval ==
    (scPc = "wait" /\ scTicker.pending = 0) => TickPasses = scTicker.elapsed

\* C18 amended: at most one tick is pending; a tick that fires while one
\* is pending is dropped; the tick-driven passes begun are the intervals
\* elapsed less the dropped ticks and the pending one.
C18_TicksCoalescedWhilePending ==
    /\ scTicker.pending \in {0, 1}
    /\ TickPasses + scTicker.pending + scTicker.dropped = scTicker.elapsed

\* two intervals elapsed during the initial pass: one tick was dropped and
\* one tick-driven pass was begun
C18_Witness ==
    /\ scTicker.elapsed = 2 /\ scTicker.dropped = 1 /\ scTicker.pending = 0
    /\ TickPasses = 1
    /\ scPc = "wait"

\* the pass under way, 0 when the goroutine is between passes
RunningPass == IF scPc = "collect" THEN Len(scPasses) ELSE 0
\* the collector calls made so far, over all passes
CollectorCalls(passes) ==
    {kc \in (1..Len(passes)) \X (1..3) : kc[2] <= Len(passes[kc[1]].ran)}

\* C28: a pass begins only when the goroutine is not inside a pass and
\* every earlier pass has run its three collectors; a step runs at most
\* one collector call, and that call belongs to the one pass under way;
\* a tick that fires while a pass is under way starts nothing: it stays
\* pending (or is dropped) and the pass under way goes on.
C28_OnePassAndOneCollectorAtATime ==
    [][/\ Len(scPasses') > Len(scPasses) =>
            /\ Len(scPasses') = Len(scPasses) + 1
            /\ RunningPass = 0
            /\ \A k \in 1..Len(scPasses) : PassComplete(k) /\ scPasses'[k] = scPasses[k]
            /\ scPasses'[Len(scPasses')].ran = <<>>
       /\ CollectorCalls(scPasses') # CollectorCalls(scPasses) =>
            /\ RunningPass # 0
            /\ CollectorCalls(scPasses') \ CollectorCalls(scPasses)
                  = {<<RunningPass, Len(scPasses[RunningPass].ran) + 1>>}
            /\ \A k \in 1..Len(scPasses) : k # RunningPass => scPasses'[k] = scPasses[k]
       /\ (RunningPass # 0 /\ scTicker'.elapsed > scTicker.elapsed) =>
            /\ scPasses' = scPasses /\ scPc' = scPc
            /\ scTicker'.pending + scTicker'.dropped = scTicker.pending + scTicker.dropped + 1
       /\ Len(scPasses') >= Len(scPasses)]_vars

\* a tick fired while the initial pass was between two collectors: it is
\* pending and no second pass has begun
C28_Witness ==
    /\ scPc = "collect"
    /\ Len(scPasses) = 1 /\ Len(scPasses[1].ran) = 2
    /\ scTicker.pending = 1 /\ scTicker.elapsed = 1

(***************************************************************************)
(* Claims about the Xid event loop                                         *)
(***************************************************************************)
\* the step is a turn of the loop
XidWaited == xeSt.pc = "wait" /\ xeHist'.waits = xeHist.waits + 1
CountOf(counts, key) == IF key \in DOMAIN counts THEN counts[key] ELSE 0
XidKey(event) == [UUID |-> Uuid(event.Device), Xid |-> event.EventData]
XidLabels(event) == <<Uuid(event.Device), pciBusIdToString(event.Device), ToString(event.EventData)>>
\* a critical Xid event whose device answers both identity queries
Qualifies(res) ==
    /\ res.ret = "SUCCESS"
    /\ "XidCriticalError" \in res.event.EventType
    /\ res.event.uuidRet = "SUCCESS" /\ res.event.pciRet = "SUCCESS"

\* C19: a turn of the loop whose wait returned a timeout leaves every
\* in-memory count, every exported counter and the log as they were, and
\* the loop waits again.
C19_TimeoutCountsNothing ==
    [][(XidWaited /\ xeLast'.ret = "ERROR_TIMEOUT") =>
          /\ xeSt'.xidCounts = xeSt.xidCounts
          /\ xeSt'.xidErrors = xeSt.xidErrors
          /\ xeSt'.log = xeSt.log
          /\ xeSt'.pc = "wait"]_vars

\* a timeout came after an event had been counted and logged
C19_Witness ==
    /\ xeLast.ret = "ERROR_TIMEOUT"
    /\ xeHist.waits >= 2
    /\ DOMAIN xeSt.xidErrors # {}
    /\ CountOf(xeSt.log, "Xid error detected") = 1

XidClassEvent(res) == res.ret = "SUCCESS" /\ "XidCriticalError" \in res.event.EventType
\* the entries of a count table other than the one under key are as before
OthersKept(before, after, key) ==
    \A k \in (DOMAIN before \cup DOMAIN after) \ {key} : CountOf(after, k) = CountOf(before, k)

C22_CountIsNumberOfHandledEvents ==
    /\ [](/\ DOMAIN xeSt.xidCounts = DOMAIN xeHist.handled
          /\ \A key \in DOMAIN xeHist.handled :
                xeHist.handled[key] >= 1 /\ xeSt.xidCounts[key] = xeHist.handled[key])
    /\ [][\A key \in DOMAIN xeSt.xidCounts :
             /\ key \in DOMAIN xeSt'.xidCounts
             /\ xeSt'.xidCounts[key] >= xeSt.xidCounts[key]]_vars

\* one key has been counted twice, the last time just now, and another key once
C22_Witness ==
    \E key, other \in DOMAIN xeSt.xidCounts :
        /\ key # other
        /\ xeSt.xidCounts[key] = 2
        /\ xeSt.xidCounts[other] = 1
        /\ XidKey(xeLast.event) = key

(***************************************************************************)
(* Claims about the startup sequence                                       *)
(***************************************************************************)
\* Run has called startXidEventCollector and the call is over
XidCollectorCalled == rnSt.createRet # "NONE"
RegistrationFailed == \E d \in DOMAIN rnSt.regRets : rnSt.regRets[d] # "SUCCESS"
\* Run returned the error of startXidEventCollector
XidStartupFailure ==
    /\ rnSt.pc = "returned"
    /\ \E ret \in NvmlReturns :
          rnSt.err = "failed to start xid event collector: failed to create event set: " \o ret
\* every device of the list once, in the order of the list
EveryDeviceOnce(attempts) ==
    /\ Len(attempts) = rnEnv.count
    /\ \A d \in 1..rnEnv.count : attempts[d] = d - 1

\* C23 as stated: every device is subscribed once, and when the event set
\* cannot be created or any one device cannot be registered, Run returns
\* the error of startXidEventCollector and neither the event loop nor the
\* HTTP server is started.
C23_Original_AnySetupFailureIsFatal ==
    XidCollectorCalled =>
        /\ (rnSt.createRet # "SUCCESS" \/ RegistrationFailed) =>
              XidStartupFailure /\ ~rnSt.eventLoop /\ ~rnSt.http
        /\ (rnSt.createRet = "SUCCESS" /\ ~RegistrationFailed) =>
              EveryDeviceOnce(rnSt.attempts) /\ rnSt.eventLoop

\* C23: when the event set cannot be created, Run returns the error of
\* startXidEventCollector, no device is registered and neither the event
\* loop nor the HTTP server is started; when it is created, every device of
\* the list is registered for the critical Xid class once, in order, a
\* device whose registration fails is logged as a warning and left out, and
\* the event loop is started whatever the registrations answered.  The
\* HTTP server is never started without the event loop.
C23_OnlyEventSetFailureIsFatal ==
    /\ XidCollectorCalled =>
        /\ rnSt.createRet # "SUCCESS" =>
              /\ XidStartupFailure /\ ~rnSt.eventLoop /\ ~rnSt.http
              /\ rnSt.attempts = <<>> /\ rnSt.subscribed = {}
        /\ rnSt.createRet = "SUCCESS" =>
              /\ EveryDeviceOnce(rnSt.attempts)
              /\ rnSt.subscribed = {d - 1 : d \in {e \in 1..rnEnv.count : rnSt.regRets[e] = "SUCCESS"}}
              /\ rnSt.warnings = rnEnv.count - Cardinality(rnSt.subscribed)
              /\ rnSt.eventLoop
              /\ ~XidStartupFailure
    /\ rnSt.http => rnSt.eventLoop
    /\ rnSt.eventLoop => XidCollectorCalled /\ rnSt.createRet = "SUCCESS"

\* Run serves HTTP with one of two devices subscribed, the registration of
\* the other having failed
C23_Witness ==
    /\ rnSt.pc = "serving" /\ rnSt.http /\ rnSt.eventLoop
    /\ rnEnv.count = 2
    /\ rnSt.regRets = <<"ERROR_UNKNOWN", "SUCCESS">>
    /\ rnSt.subscribed = {1}
    /\ rnSt.warnings = 1

\* Run is past its call of loadGpuInfos
GpuInfosLoaded == Len(rnSt.calls) >= 1
FailedIndexes == {i \in 0..(rnEnv.count - 1) : rnEnv.gpu[i + 1].err # "nil"}
NothingStarted ==
    /\ rnSt.registered = {} /\ rnSt.gpuInfo = <<>> /\ rnSt.exporterInfo = <<>>
    /\ ~rnSt.polling /\ ~rnSt.eventLoop /\ ~rnSt.http

\* C25: when GpuInfo fails for some index, loadGpuInfos returns the nil
\* list and an error that contains "failed to get GPU info" and names the
\* first failing index, and Run returns it wrapped with nothing registered,
\* set or started, which stays so; when no index fails, the list has
\* Count() entries, the entry of index i being what GpuInfo(i) answered.
C25_LoadFailureStopsRunElseFullList ==
    GpuInfosLoaded =>
        /\ FailedIndexes # {} =>
              /\ rnSt.pc = "returned"
              /\ rnSt.calls = <<"loadGpuInfos">>
              /\ rnSt.nil /\ rnSt.infos = <<>>
              /\ \E i \in FailedIndexes :
                    /\ \A j \in FailedIndexes : i <= j
                    /\ rnSt.err = "failed to preload gpu info: "
                                  \o ("failed to get GPU info" \o " for device " \o ToString(i))
                                  \o ": " \o rnEnv.gpu[i + 1].err
              /\ NothingStarted
        /\ FailedIndexes = {} =>
              /\ ~rnSt.nil
              /\ Len(rnSt.infos) = rnEnv.count
              /\ \A i \in 0..(rnEnv.count - 1) : rnSt.infos[i + 1] = rnEnv.gpu[i + 1].info
              /\ rnSt.calls[1] = "loadGpuInfos"

\* Run has returned because the second of two devices did not answer
C25_Witness ==
    /\ rnSt.pc = "returned"
    /\ rnEnv.count = 2
    /\ FailedIndexes = {1}
    /\ rnSt.nil
    /\ NothingStarted

\* position of a call among the calls Run has made, 0 when it has not made it
CallIndex(call) ==
    IF \E k \in DOMAIN rnSt.calls : rnSt.calls[k] = call
    THEN CHOOSE k \in DOMAIN rnSt.calls : rnSt.calls[k] = call
    ELSE 0
TimesCalled(call) == Cardinality({k \in DOMAIN rnSt.calls : rnSt.calls[k] = call})
DistinctUuids ==
    \A i, j \in 1..rnEnv.count : i # j => rnEnv.gpu[i].info.UUID # rnEnv.gpu[j].info.UUID
\* the field of GpuInfo that belongs under a label name of gpu_info
LabelField ==
    [UUID |-> "UUID", pci_bus_id |-> "PciBusId", name |-> "Name", brand |-> "Brand",
     serial |-> "Serial", board_id |-> "BoardId", vbios_version |-> "VbiosVersion",
     oem_inforom_version |-> "OemInforomVersion", ecc_inforom_version |-> "EccInforomVersion",
     power_inforom_version |-> "PowerInforomVersion",
     inforom_image_version |-> "InforomImageVersion",
     chassis_serial_number |-> "ChassisSerialNumber", slot_number |-> "SlotNumber",
     tray_index |-> "TrayIndex", host_id |-> "HostId", peer_type |-> "PeerType",
     module_id |-> "ModuleId", gpu_fabric_guid |-> "GpuFabricGuid"]
\* the series carries, under every label name, the field of this device
SeriesOfDevice(labels, info) ==
    /\ Len(labels) = Len(gpuInfoLabelNames)
    /\ \A k \in 1..Len(labels) : labels[k] = info[LabelField[gpuInfoLabelNames[k]]]

ClockLogged(hist, key) == IF key \in DOMAIN hist THEN hist[key].logged ELSE 0
ClockSuppressed(hist, key) == IF key \in DOMAIN hist THEN hist[key].suppressed ELSE 0

\* C29 as stated: for a field that fails in every pass, the first
\* occurrence is logged and every later logged occurrence comes after
\* exactly 59 suppressed ones, resets included.
C29_Original_OneInEverySixty ==
    [][\A key \in DOMAIN ckHist' :
          ClockLogged(ckHist', key) > ClockLogged(ckHist, key) =>
             IF ClockLogged(ckHist, key) = 0
             THEN ckSt'.iterations = 1
             ELSE ClockSuppressed(ckHist, key) = LogEvery - 1]_vars

\* C29: for a field that fails in every pass with the same key, the first
\* occurrence is logged; a later logged occurrence comes after exactly 59
\* suppressed ones, except the one in pass 1440, where the table is reset
\* for the first time: it comes after 58; the later resets fall on
\* occurrences that are logged anyway.  No more than 59 occurrences in a
\* row are ever suppressed.
C29_OneInSixtyButFirstResetEarly ==
    [][\A key \in DOMAIN ckHist' :
          /\ ClockLogged(ckHist', key) > ClockLogged(ckHist, key) =>
                /\ ClockLogged(ckHist', key) = ClockLogged(ckHist, key) + 1
                /\ IF ClockLogged(ckHist, key) = 0
                   THEN ckSt'.iterations = 1
                   ELSE IF ckSt'.iterations = ResetEvery
                   THEN ClockSuppressed(ckHist, key) = LogEvery - 2
                   ELSE ClockSuppressed(ckHist, key) = LogEvery - 1
          /\ ClockSuppressed(ckHist', key) <= LogEvery - 1
          /\ (ckSt'.iterations % ResetEvery = 0 /\ ckSt'.iterations > ResetEvery) =>
                (ClockLogged(ckHist', key) > ClockLogged(ckHist, key)
                 /\ ClockSuppressed(ckHist, key) = LogEvery - 1)]_vars

\* the table has been reset twice and a field that fails in every pass has
\* been logged at the second reset, 59 suppressed occurrences after the
\* warning before it
C29_Witness ==
    /\ ckSt.iterations = 2 * ResetEvery
    /\ \E key \in DOMAIN ckHist :
          /\ ckHist[key].suppressed = 0
          /\ ckHist[key].logged = 1 + ((ResetEvery - 1) \div LogEvery) + 1 + (ResetEvery \div LogEvery)
          /\ ckSt.logCounter[key] = 1

(***************************************************************************)
(* Claims about the gauge vectors across passes                            *)
(***************************************************************************)
\* the pass left the device out of the NVLink collector, or out of the fabric one
SkippedByNvlink(env) ==
    env.uuidRet # "SUCCESS" \/ env.pciRet # "SUCCESS" \/ env.batchRet # "SUCCESS"
SkippedByFabric(env) ==
    env.uuidRet # "SUCCESS" \/ env.pciRet # "SUCCESS" \/ env.fabricRet # "SUCCESS"

\* the link was not active when the results were read
LinkInactive(env, link) ==
    env.linkRead[link].ret # "SUCCESS" \/ env.linkRead[link].state # "FEATURE_ENABLED"

\* the request of the field on the link came back with a status other than success
FieldFailed(env, link, name) ==
    \E i \in 1..Len(AllFields) :
        /\ AllFields[i].name = name
        /\ env.odd.fieldId = AllFields[i].fieldId
        /\ env.odd.link = link
        /\ env.odd.ret # "SUCCESS"

\* what a pass leaves of the series it found
GaugesKept ==
    LET ne == gsEnv'.nvlink
        fe == gsEnv'.fabric
    IN  /\ DOMAIN gsReg.nvlink \subseteq DOMAIN gsReg'.nvlink
        /\ DOMAIN gsReg.fabric \subseteq DOMAIN gsReg'.fabric
        /\ \A k \in DOMAIN gsReg.nvlink :
              (SkippedByNvlink(ne) \/ LinkInactive(ne, k[1]) \/ FieldFailed(ne, k[1], k[2]))
                 => gsReg'.nvlink[k] = gsReg.nvlink[k]
        /\ \A k \in DOMAIN gsReg.fabric :
              (SkippedByFabric(fe) \/ SubSeq(k, 2, 5) # fabricLabels(fe))
                 => gsReg'.fabric[k] = gsReg.fabric[k]
        /\ ~SkippedByFabric(fe) =>
              \A k \in DOMAIN gsReg.fabric :
                 (<<k[1]>> \o fabricLabels(fe) \o SubSeq(k, 6, Len(k))) \in DOMAIN gsReg'.fabric

\* C30: a pass only sets samples and deletes none: every series an earlier
\* pass wrote is still there after the pass; it keeps its value when the pass
\* skips the device, finds the link inactive or gets a failed status for the
\* field; and the fabric series written under an earlier clique id or cluster
\* UUID keep their values next to the series of the new labels.
C30_PassOnlySetsGauges == [][gsPass' = gsPass + 1 => GaugesKept]_vars

\* after the second pass: fabric_state is held under two clique ids, and link 1,
\* inactive in this pass, still has a series from the pass before
C30_Witness ==
    /\ gsPass = 2
    /\ \E k1 \in DOMAIN gsReg.fabric, k2 \in DOMAIN gsReg.fabric :
          k1[1] = "fabric_state" /\ k2[1] = "fabric_state" /\ k1[4] # k2[4]
    /\ LinkInactive(gsEnv.nvlink, 1)
    /\ \E k \in DOMAIN gsReg.nvlink : k[1] = 1

=============================================================================
